---- MODULE Spec2Model ----
(***************************************************************************)
(* Model of the adaptive moderation pipeline of FIST:                      *)
(*   - DynamicThresholdManager   (src/services/threshold_manager.py)       *)
(*   - ModerationService         (src/services.py, src/ai_connector.py)    *)
(*   - BatchProcessor            (src/batch_processor.py,                  *)
(*                                src/utils/background_tasks.py)           *)
(*   - SemanticCacheManager      (src/ai/semantic_cache.py)                *)
(*                                                                         *)
(* Real numbers of the program are modelled as integers in units of        *)
(* 1/Unit, so that every value the code can compute from the modelled      *)
(* inputs is exact.                                                        *)
(***************************************************************************)
EXTENDS Integers, Sequences, FiniteSets, TLC

VARIABLES
    thresholds,           \* DynamicThresholdManager.thresholds
    performance_metrics,  \* DynamicThresholdManager.performance_metrics
    lastDecision,         \* the ThresholdDecision returned by the last make_threshold_decision
    decidedWith,          \* the thresholds that decision was computed from
    updates,              \* number of update_thresholds_from_feedback calls so far
    lastFeedback          \* feedback_data of the last observed update_thresholds_from_feedback call

VARIABLES
    analysis_available,   \* ENHANCED_ANALYSIS_AVAILABLE = INTELLIGENT_PROCESSING_AVAILABLE (services.py)
    cache_enabled,        \* CacheManager.enabled with a connected redis_client
    redis_data,           \* the entries of the Redis backend: cache key -> cached data
    redis_fault,          \* which calls of redis_client raise: [get, setex]
    lastItem,             \* what the last _process_single_item call did
    lastModeration,       \* outcome of the last ModerationService.moderate_content call
    moderations           \* number of moderate_content calls so far

varsT == <<thresholds, performance_metrics, lastDecision, decidedWith, updates, lastFeedback>>
VARIABLES
    active_jobs,          \* BatchProcessor.active_jobs: job id -> job_info
    requests,             \* per job, the batch request held by its caller
    run,                  \* the process_batch_async invocation in progress or last finished
    submitted,            \* number of items submitted to worker pools so far
    lastCreate,           \* outcome of the last create_batch_job call
    batch_metrics,        \* metrics_collector: batch_requests and batch_size_total
    lastCleanup,          \* what the last cleanup_old_jobs call did
    lastQuery             \* the last get_job_status or get_job_results call and its return value

varsM == <<analysis_available, cache_enabled, redis_data, redis_fault, lastModeration, moderations, lastItem>>
VARIABLES
    entries,              \* InMemoryVectorStore.entries (and embeddings): cache key -> CacheEntry
    sweep,                \* the cleanup thread: its position, its expired_keys, its next wake-up
    now,                  \* time.time(), in seconds
    analytics,            \* SemanticCacheManager.analytics counters
    lastGet,              \* the CacheHit returned by the last get_cached_result, with the
                          \* time and the ordinal of the call
    stored,               \* history: per content, its most recent store_result and
                          \* whether an invalidation has removed it since
    cache_ops,            \* number of cache calls so far
    lastInvalidate,       \* the arguments and the return value of the last invalidate_cache
    gets                  \* per worker thread, its get_cached_result call in progress

varsB == <<active_jobs, requests, run, submitted, lastCreate, batch_metrics, lastCleanup, lastQuery>>
varsC == <<entries, sweep, now, analytics, lastGet, stored, cache_ops, lastInvalidate, gets>>

VARIABLES
    processing            \* the IntelligentContentProcessor call in progress or last made

varsS == <<processing>>

vars == <<varsT, varsM, varsB, varsC, varsS>>

(***************************************************************************)
(* Bounds of the model                                                     *)
(***************************************************************************)
MaxUpdates == 5        \* feedback batches applied in one behaviour of SpecLearn
MaxFeedbackLen == 2    \* records in one feedback batch
MaxOps == 2            \* decisions and feedback batches in one behaviour of SpecDecide
MaxModerations == 2    \* moderate_content calls in one behaviour of SpecModerate
MaxCacheOps == 3       \* store, get and invalidate calls in one behaviour of SpecCache
MaxTicks == 2          \* clock ticks in one behaviour of SpecCache
MaxJobs == 3           \* batch jobs created in one behaviour of SpecSubmit
MaxItems == 4          \* items submitted to worker pools in one behaviour of SpecBatch

(***************************************************************************)
(* Numbers                                                                 *)
(***************************************************************************)
\* 1.0 in model units; 200 * 60 makes -0.05 * (k/n - 0.1) exact for n | 60
Unit == 200 * 60

Pct(p) == (p * Unit) \div 100

Max(a, b) == IF a >= b THEN a ELSE b
Min(a, b) == IF a <= b THEN a ELSE b

NoValue == [none |-> TRUE]

(***************************************************************************)
(* Configuration (src/core/config.py)                                      *)
(***************************************************************************)
REJECTION_THRESHOLD == Pct(80)
MANUAL_REVIEW_THRESHOLD == Pct(50)

(***************************************************************************)
(* DynamicThresholdManager                                                 *)
(***************************************************************************)
ThresholdType == {"rejection", "manual_review"}

\* AdaptiveThreshold(base_value, min_value, max_value, current_value) with
\* __post_init__: a current_value of 0.0 is replaced by base_value
AdaptiveThreshold(base, lo, hi, cur) ==
    [base_value |-> base, min_value |-> lo, max_value |-> hi,
     current_value |-> IF cur = 0 THEN base ELSE cur]

\* faulty variant: the bounds of the two thresholds are exchanged
InitThresholds_exchanged_bounds ==
    [t \in ThresholdType |->
        IF t = "rejection"
        THEN AdaptiveThreshold(REJECTION_THRESHOLD, Pct(30), Pct(80), REJECTION_THRESHOLD)
        ELSE AdaptiveThreshold(MANUAL_REVIEW_THRESHOLD, Pct(60), Pct(95), MANUAL_REVIEW_THRESHOLD)]

\* DynamicThresholdManager.__init__
InitThresholds ==
    [t \in ThresholdType |->
        IF t = "rejection"
        THEN AdaptiveThreshold(REJECTION_THRESHOLD, Pct(60), Pct(95), REJECTION_THRESHOLD)
        ELSE AdaptiveThreshold(MANUAL_REVIEW_THRESHOLD, Pct(30), Pct(80), MANUAL_REVIEW_THRESHOLD)]

InitMetrics ==
    [accuracy |-> [num |-> 0, den |-> 1],
     false_positives |-> 0, false_negatives |-> 0, total_decisions |-> 0]

\* _initialize_adjustment_rules, in the iteration order of the rule table;
\* confidence is the dataclass default 1.0
Rule(f, c, a) == [factor |-> f, condition |-> c, adjustment |-> a, confidence |-> Unit]

adjustment_rules ==
    << Rule("content_type", "social_media", 0 - Pct(10)),
       Rule("content_type", "news_article", Pct(5)),
       Rule("content_type", "promotional", Pct(15)),
       Rule("content_type", "technical", 0 - Pct(5)),
       Rule("content_length", "very_short", Pct(10)),
       Rule("content_length", "very_long", 0 - Pct(5)),
       Rule("sentiment", "very_negative", Pct(20)),
       Rule("sentiment", "positive", 0 - Pct(10)),
       Rule("topic", "politics", Pct(15)),
       Rule("topic", "health", Pct(10)),
       Rule("topic", "entertainment", 0 - Pct(5)),
       Rule("language", "non_english", Pct(10)),
       Rule("time_of_day", "night_hours", Pct(5)),
       Rule("time_of_day", "peak_hours", 0 - Pct(5)),
       Rule("user_history", "high_risk_user", Pct(20)),
       Rule("user_history", "trusted_user", 0 - Pct(10)),
       Rule("system_load", "high_load", Pct(10)),
       Rule("system_load", "low_load", 0 - Pct(5)) >>

\* primary_topic values and the substring tests of _evaluate_context_condition
\* ("politic" in topic.lower(), ...), tabulated over the topics of the model
Topics == {"general", "Politics", "medical", "entertainment"}
TopicHasPolitic(t) == t \in {"Politics"}
TopicHasHealth(t) == t \in {"medical"}
TopicHasEntertainment(t) == t \in {"entertainment"}

\* ThresholdContext() with its dataclass defaults
DefaultContext ==
    [content_type |-> "general", content_length |-> 0, sentiment_score |-> 0,
     sentiment_label |-> "neutral", primary_topic |-> "general", language |-> "en", time_of_day |-> 12,
     user_risk_score |-> Pct(50), system_load |-> Pct(50)]

_evaluate_context_condition(condition, context) ==
    CASE condition = "social_media" -> context.content_type = "social_media"
      [] condition = "news_article" -> context.content_type = "news_article"
      [] condition = "promotional" -> context.content_type = "promotional"
      [] condition = "technical" -> context.content_type = "technical"
      [] condition = "very_short" -> context.content_length < 20
      [] condition = "very_long" -> context.content_length > 500
      [] condition = "very_negative" -> context.sentiment_score < 0 - Pct(70)
      [] condition = "positive" -> context.sentiment_score > Pct(30)
      [] condition = "politics" -> TopicHasPolitic(context.primary_topic)
      [] condition = "health" -> TopicHasHealth(context.primary_topic)
      [] condition = "entertainment" -> TopicHasEntertainment(context.primary_topic)
      [] condition = "non_english" -> context.language # "en"
      [] condition = "night_hours" -> context.time_of_day >= 22 \/ context.time_of_day <= 6
      [] condition = "peak_hours" -> 9 <= context.time_of_day /\ context.time_of_day <= 17
      [] condition = "high_risk_user" -> context.user_risk_score > Pct(70)
      [] condition = "trusted_user" -> context.user_risk_score < Pct(30)
      [] condition = "high_load" -> context.system_load > Pct(80)
      [] condition = "low_load" -> context.system_load < Pct(30)
      [] OTHER -> FALSE

\* the loop of calculate_adjusted_threshold over the first n rules
RECURSIVE ApplyRules(_, _, _)
ApplyRules(n, context, acc) ==
    IF n = 0 THEN acc
    ELSE LET prev == ApplyRules(n - 1, context, acc)
             rule == adjustment_rules[n]
         IN IF _evaluate_context_condition(rule.condition, context)
            THEN [value |-> prev.value + (rule.adjustment * rule.confidence) \div Unit,
                  applied |-> Append(prev.applied, rule.condition)]
            ELSE prev

\* calculate_adjusted_threshold without the bounds of lines 355-357
calculate_adjusted_threshold_unbounded(thr, threshold_type, context) ==
    ApplyRules(Len(adjustment_rules), context,
               [value |-> thr[threshold_type].current_value, applied |-> <<>>])

calculate_adjusted_threshold(thr, threshold_type, context) ==
    LET base_threshold == thr[threshold_type]
        summed == ApplyRules(Len(adjustment_rules), context,
                             [value |-> base_threshold.current_value, applied |-> <<>>])
    IN [value |-> Max(base_threshold.min_value,
                      Min(base_threshold.max_value, summed.value)),
        applied |-> summed.applied]

\* min(1.0, num / den) kept as a fraction
Confidence(num, den) ==
    IF num >= den THEN [num |-> 1, den |-> 1] ELSE [num |-> num, den |-> den]

\* the fields of a ThresholdDecision shared by the three branches
DecisionRecord(decision, used, type, applied, confidence, ai_score, context) ==
    [decision |-> decision, threshold_used |-> used, threshold_type |-> type,
     adjustments_applied |-> applied, confidence |-> confidence,
     ai_score |-> ai_score, context |-> context]

\* faulty variant: the manual-review test is inverted (<= instead of >=)
make_threshold_decision_inverted(thr, ai_score, context) ==
    LET rej == calculate_adjusted_threshold(thr, "rejection", context)
        man == calculate_adjusted_threshold(thr, "manual_review", context)
    IN IF ai_score >= rej.value
       THEN DecisionRecord("R", rej.value, "rejection", rej.applied,
                           Confidence(ai_score - rej.value, Unit - rej.value),
                           ai_score, context)
       ELSE IF ai_score <= man.value
       THEN DecisionRecord("M", man.value, "manual_review", man.applied,
                           Confidence(1, 1), ai_score, context)
       ELSE DecisionRecord("A", man.value, "approval", man.applied,
                           Confidence(1, 1), ai_score, context)

\* faulty variant: a score equal to a threshold takes the less severe decision
make_threshold_decision_strict(thr, ai_score, context) ==
    LET rej == calculate_adjusted_threshold(thr, "rejection", context)
        man == calculate_adjusted_threshold(thr, "manual_review", context)
    IN IF ai_score > rej.value
       THEN DecisionRecord("R", rej.value, "rejection", rej.applied,
                           Confidence(ai_score - rej.value, Unit - rej.value),
                           ai_score, context)
       ELSE IF ai_score > man.value
       THEN DecisionRecord("M", man.value, "manual_review", man.applied,
                           Confidence(ai_score - man.value, rej.value - man.value),
                           ai_score, context)
       ELSE DecisionRecord("A", man.value, "approval", man.applied,
                           Confidence(man.value - ai_score, man.value),
                           ai_score, context)

\* make_threshold_decision: the ThresholdDecision it builds
make_threshold_decision(thr, ai_score, context) ==
    LET rej == calculate_adjusted_threshold(thr, "rejection", context)
        man == calculate_adjusted_threshold(thr, "manual_review", context)
    IN IF ai_score >= rej.value
       THEN DecisionRecord("R", rej.value, "rejection", rej.applied,
                           Confidence(ai_score - rej.value, Unit - rej.value),
                           ai_score, context)
       ELSE IF ai_score >= man.value
       THEN DecisionRecord("M", man.value, "manual_review", man.applied,
                           Confidence(ai_score - man.value, rej.value - man.value),
                           ai_score, context)
       ELSE DecisionRecord("A", man.value, "approval", man.applied,
                           Confidence(man.value - ai_score, man.value),
                           ai_score, context)

\* _record_decision: total_decisions += 1 (the history deque only feeds
\* analyze_performance, which writes nothing)
_record_decision(pm) == [pm EXCEPT !.total_decisions = @ + 1]

(***************************************************************************)
(* Inputs                                                                  *)
(***************************************************************************)
\* contexts: the default one and contexts that trigger lenient, strict and
\* mixed sets of rules
Contexts ==
    { DefaultContext,
      [DefaultContext EXCEPT !.content_type = "social_media", !.content_length = 600,
                             !.sentiment_score = Pct(50), !.primary_topic = "entertainment",
                             !.user_risk_score = Pct(20), !.system_load = Pct(20)],
      [DefaultContext EXCEPT !.content_type = "promotional", !.content_length = 10,
                             !.sentiment_score = 0 - Pct(80), !.primary_topic = "Politics",
                             !.language = "zh", !.time_of_day = 23,
                             !.user_risk_score = Pct(80), !.system_load = Pct(90)],
      [DefaultContext EXCEPT !.content_type = "technical", !.time_of_day = 3],
      [DefaultContext EXCEPT !.content_type = "news_article", !.primary_topic = "medical",
                             !.time_of_day = 20],
      [DefaultContext EXCEPT !.content_length = 10, !.time_of_day = 20],
      [DefaultContext EXCEPT !.sentiment_score = Pct(50), !.time_of_day = 20] }

\* ai scores: inappropriate_probability / 100 for whole percentages
Scores == { Pct(p) : p \in {0, 30, 50, 60, 80, 95, 100} }

FeedbackRecords ==
    { [predicted_decision |-> "R", actual_decision |-> "A"],
      [predicted_decision |-> "M", actual_decision |-> "A"],
      [predicted_decision |-> "A", actual_decision |-> "R"] }

FeedbackBatches ==
    UNION { [1..n -> FeedbackRecords] : n \in 0..MaxFeedbackLen }

(***************************************************************************)
(* update_thresholds_from_feedback                                         *)
(***************************************************************************)
IsFalsePositive(fb) == fb.predicted_decision = "R" /\ fb.actual_decision \in {"A", "M"}
IsFalseNegative(fb) ==
    /\ ~IsFalsePositive(fb)
    /\ fb.predicted_decision = "A" /\ fb.actual_decision \in {"R", "M"}

\* the counting loop over the batch
CountFalsePositives(feedback_data) ==
    Cardinality({i \in DOMAIN feedback_data : IsFalsePositive(feedback_data[i])})
CountFalseNegatives(feedback_data) ==
    Cardinality({i \in DOMAIN feedback_data : IsFalseNegative(feedback_data[i])})

\* faulty variant: the adjustment has lost its sign and raises the threshold
LearnAdjustment_positive(count, total) == ((10 * count - total) * (Unit \div 200)) \div total

\* adjustment = -0.05 * (rate - 0.1) with rate = count / total, in model units
LearnAdjustment(count, total) == 0 - ((10 * count - total) * (Unit \div 200)) \div total

\* faulty variant: the lowered value is stored without the clamp to min_value
LoweredValueUnclamped(threshold, adjustment) ==
    threshold.current_value + adjustment

\* new_value = max(min_value, current_value + adjustment)
LoweredValue(threshold, adjustment) ==
    Max(threshold.min_value, threshold.current_value + adjustment)

UpdatedThresholds(thr, feedback_data) ==
    LET total_feedback == Len(feedback_data)
        false_positives == CountFalsePositives(feedback_data)
        false_negatives == CountFalseNegatives(feedback_data)
        afterFP ==
            IF 10 * false_positives > total_feedback
            THEN [thr EXCEPT !["rejection"].current_value =
                     LoweredValue(thr["rejection"],
                                  LearnAdjustment(false_positives, total_feedback))]
            ELSE thr
    IN IF 10 * false_negatives > total_feedback
       THEN [afterFP EXCEPT !["manual_review"].current_value =
                LoweredValue(afterFP["manual_review"],
                             LearnAdjustment(false_negatives, total_feedback))]
       ELSE afterFP

UpdatedMetrics(pm, feedback_data) ==
    LET fp == pm.false_positives + CountFalsePositives(feedback_data)
        fn == pm.false_negatives + CountFalseNegatives(feedback_data)
    IN [pm EXCEPT !.false_positives = fp, !.false_negatives = fn,
                  !.accuracy = IF pm.total_decisions > 0
                               THEN [num |-> pm.total_decisions - (fp + fn),
                                     den |-> pm.total_decisions]
                               ELSE @]

update_thresholds_from_feedback(feedback_data) ==
    /\ updates' = updates + 1
    /\ IF feedback_data = <<>>
       THEN UNCHANGED <<thresholds, performance_metrics>>
       ELSE /\ thresholds' = UpdatedThresholds(thresholds, feedback_data)
            /\ performance_metrics' = UpdatedMetrics(performance_metrics, feedback_data)
    /\ UNCHANGED <<lastDecision, decidedWith>>

MakeThresholdDecision(ai_score, context) ==
    /\ lastDecision' = make_threshold_decision(thresholds, ai_score, context)
    /\ decidedWith' = thresholds
    /\ performance_metrics' = _record_decision(performance_metrics)
    /\ UNCHANGED <<thresholds, updates, lastFeedback>>

InitT ==
    /\ thresholds = InitThresholds
    /\ performance_metrics = InitMetrics
    /\ lastDecision = NoValue
    /\ decidedWith = NoValue
    /\ updates = 0
    /\ lastFeedback = <<>>

(***************************************************************************)
(* ModerationService and AIConnector                                       *)
(***************************************************************************)
DEFAULT_PROBABILITY_THRESHOLDS == [low |-> 20, high |-> 80]
MAX_SPAM_PROBABILITY == Pct(70)
MIN_QUALITY_SCORE == Pct(30)

ModContents == {"ok1", "fail-me"}

\* what the chat-completion call of AIConnector.moderate_content can produce
ClassifierOutcomes ==
    { [kind |-> "scored", prob |-> 10],    \* JSON object with inappropriate_probability
      [kind |-> "scored", prob |-> 90],
      [kind |-> "exception", prob |-> 0],  \* the client call raises
      [kind |-> "empty", prob |-> 0],      \* message.content is None
      [kind |-> "bad_json", prob |-> 0],   \* json.loads raises
      [kind |-> "no_prob", prob |-> 0],    \* JSON object without inappropriate_probability
      [kind |-> "not_object", prob |-> 0] }  \* valid JSON that is no object

ClassifierFailures == {"exception", "empty", "bad_json", "no_prob", "not_object"}

\* AIConnector.moderate_content: the value it returns for an outcome
AIResult(outcome) ==
    CASE outcome.kind = "scored" ->
            [is_dict |-> TRUE, has_prob |-> TRUE,
             inappropriate_probability |-> outcome.prob, reason |-> "model"]
      [] outcome.kind = "empty" ->
            [is_dict |-> TRUE, has_prob |-> TRUE,
             inappropriate_probability |-> 100, reason |-> "Empty response from AI model"]
      [] outcome.kind \in {"exception", "bad_json"} ->
            [is_dict |-> TRUE, has_prob |-> TRUE,
             inappropriate_probability |-> 100, reason |-> "Error processing content"]
      [] outcome.kind = "no_prob" ->
            [is_dict |-> TRUE, has_prob |-> FALSE,
             inappropriate_probability |-> 0, reason |-> "model"]
      [] OTHER ->
            [is_dict |-> FALSE, has_prob |-> FALSE,
             inappropriate_probability |-> 0, reason |-> "none"]

\* ai_result.get("inappropriate_probability", default)
GetProb(ai_result, default) ==
    IF ai_result.has_prob THEN ai_result.inappropriate_probability ELSE default

\* caller-supplied probability_thresholds; NoValue is None
ProbabilityThresholds ==
    { NoValue, [low |-> 50, high |-> 90], [low |-> 100, high |-> 100] }

analyze_result(ai_result, probability_thresholds) ==
    LET pt == IF probability_thresholds = NoValue
              THEN DEFAULT_PROBABILITY_THRESHOLDS ELSE probability_thresholds
        inappropriate_prob == GetProb(ai_result, 50)
    IN IF inappropriate_prob <= pt.low THEN "A"
       ELSE IF inappropriate_prob <= pt.high THEN "M"
       ELSE "R"

\* perform_enhanced_analysis: the analyzers are functions of the content;
\* the result is {} when the analysis is unavailable or disabled
EmptyAnalysis == <<>>

FullAnalysis(content) ==
    IF content = "fail-me"
    THEN [sentiment_analysis |-> [label |-> "negative", confidence |-> Pct(90), score |-> 0 - Pct(80)],
          topic_extraction |-> [primary_topic |-> "Politics", language |-> "zh",
                                content_type |-> "promotional"],
          text_quality |-> [spam_probability |-> Pct(90), quality_score |-> Pct(20)]]
    ELSE [sentiment_analysis |-> [label |-> "positive", confidence |-> Pct(90), score |-> Pct(50)],
          topic_extraction |-> [primary_topic |-> "general", language |-> "en",
                                content_type |-> "general"],
          text_quality |-> [spam_probability |-> Pct(10), quality_score |-> Pct(80)]]

perform_enhanced_analysis(content, available) ==
    IF available THEN FullAnalysis(content) ELSE EmptyAnalysis

\* any(sensitive in primary_topic.lower() for sensitive in sensitive_topics)
TopicIsSensitive(t) == t \in {"Politics"}

Escalate(decision, condition) == IF condition /\ decision = "A" THEN "M" ELSE decision

analyze_result_enhanced(ai_result, probability_thresholds, enhanced_analysis) ==
    LET basic == analyze_result(ai_result, probability_thresholds)
        prob == GetProb(ai_result, 0)
        has(k) == k \in DOMAIN enhanced_analysis
        d1 == Escalate(basic,
                 /\ has("sentiment_analysis")
                 /\ enhanced_analysis["sentiment_analysis"].label = "negative"
                 /\ enhanced_analysis["sentiment_analysis"].confidence > Pct(80)
                 /\ prob < 50)
        d2 == Escalate(d1,
                 /\ has("text_quality")
                 /\ enhanced_analysis["text_quality"].spam_probability > MAX_SPAM_PROBABILITY)
        d3 == Escalate(d2,
                 /\ has("text_quality")
                 /\ enhanced_analysis["text_quality"].quality_score < MIN_QUALITY_SCORE
                 /\ prob > 30)
        d4 == Escalate(d3,
                 /\ has("topic_extraction")
                 /\ TopicIsSensitive(enhanced_analysis["topic_extraction"].primary_topic)
                 /\ prob > 20)
    IN IF DOMAIN enhanced_analysis = {} THEN basic ELSE d4

\* get_threshold_context_from_analysis: reads the keys 'sentiment', 'topic'
\* and 'text_analysis'; time_of_day is the current hour
get_threshold_context_from_analysis(enhanced_analysis, hour) ==
    LET has(k) == k \in DOMAIN enhanced_analysis
        c1 == IF has("sentiment")
              THEN [DefaultContext EXCEPT
                       !.sentiment_score = enhanced_analysis["sentiment"].sentiment_score,
                       !.sentiment_label = enhanced_analysis["sentiment"].sentiment_label]
              ELSE DefaultContext
        c2 == IF has("topic")
              THEN [c1 EXCEPT !.primary_topic = enhanced_analysis["topic"].primary_topic,
                              !.content_type = enhanced_analysis["topic"].content_type,
                              !.language = enhanced_analysis["topic"].language]
              ELSE c1
        c3 == IF has("text_analysis")
              THEN [c2 EXCEPT !.content_length = enhanced_analysis["text_analysis"].word_count]
              ELSE c2
    IN [c3 EXCEPT !.time_of_day = hour, !.system_load = Pct(50),
                  !.user_risk_score = Pct(50)]

Hours == {3, 12}

\* CacheManager._generate_cache_key: hashes of the content and of the
\* configuration, where None stands for the default configuration
CacheKey(content, probability_thresholds) ==
    <<content, IF probability_thresholds = NoValue
               THEN DEFAULT_PROBABILITY_THRESHOLDS ELSE probability_thresholds>>

\* CacheManager.get_cached_result
CacheLookup(content, probability_thresholds) ==
    LET key == CacheKey(content, probability_thresholds)
    IN IF cache_enabled /\ ~redis_fault.get /\ key \in DOMAIN redis_data
       THEN redis_data[key] ELSE NoValue

\* CacheManager.cache_result with the except clause of line 128 missing its
\* effect: the entry is written although setex raised
CacheStore_despite_fault(data, content, result, probability_thresholds) ==
    IF cache_enabled
    THEN LET key == CacheKey(content, probability_thresholds)
             cache_data == [ai_result |-> result.ai_result,
                            final_decision |-> result.final_decision,
                            cached_at |-> "unknown"]
         IN [k \in DOMAIN data \cup {key} |-> IF k = key THEN cache_data ELSE data[k]]
    ELSE data

\* CacheManager.cache_result: the cache_data it stores
CacheStore(data, content, result, probability_thresholds) ==
    IF cache_enabled /\ ~redis_fault.setex
    THEN LET key == CacheKey(content, probability_thresholds)
             cache_data == [ai_result |-> result.ai_result,
                            final_decision |-> result.final_decision,
                            cached_at |-> "unknown"]
         IN [k \in DOMAIN data \cup {key} |-> IF k = key THEN cache_data ELSE data[k]]
    ELSE data

\* CacheManager.cache_result: the value it returns
CacheResultReturns ==
    IF cache_enabled /\ ~redis_fault.setex THEN "True" ELSE "False"

\* moderate_content, cache hit (lines 420-428)
ModerateCached(content, probability_thresholds) ==
    LET cached == CacheLookup(content, probability_thresholds)
    IN /\ cached # NoValue
       /\ lastModeration' = [raised |-> FALSE, from_cache |-> TRUE,
                              original_content |-> content,
                              outcome |-> "none", path |-> "cache",
                              ai_calls |-> 0, threshold_decisions |-> 0,
                              cache_result |-> "not called",
                              ai_result |-> cached.ai_result,
                              final_decision |-> cached.final_decision]
       /\ moderations' = moderations + 1
       /\ UNCHANGED <<varsT, analysis_available, cache_enabled, redis_data, redis_fault>>

\* moderate_content, cache miss, the analysis raises: a response that is no
\* JSON object has no .get, in analyze_result_adaptive (caught, line 278)
\* and again in the fallback analyze_result (not caught)
ModerateRaises(content, probability_thresholds, outcome) ==
    /\ CacheLookup(content, probability_thresholds) = NoValue
    /\ ~AIResult(outcome).is_dict
    /\ lastModeration' = [raised |-> TRUE, from_cache |-> FALSE,
                           original_content |-> content,
                           outcome |-> outcome.kind, path |-> "none",
                           ai_calls |-> 1, threshold_decisions |-> 1,
                           cache_result |-> "not called",
                           ai_result |-> AIResult(outcome),
                           final_decision |-> "none"]
    /\ moderations' = moderations + 1
    /\ UNCHANGED <<varsT, analysis_available, cache_enabled, redis_data, redis_fault>>

\* moderate_content, cache miss, adaptive path (analyze_result_adaptive with
\* use_intelligent_processing and INTELLIGENT_PROCESSING_AVAILABLE): the
\* decision of make_adaptive_decision
ModerateAdaptive(content, probability_thresholds, enable_enhanced_analysis, outcome, hour) ==
    LET ai_result == AIResult(outcome)
        enhanced_analysis ==
            perform_enhanced_analysis(content, enable_enhanced_analysis /\ analysis_available)
        ai_score == Pct(GetProb(ai_result, 0))
        context == get_threshold_context_from_analysis(enhanced_analysis, hour)
        decision == make_threshold_decision(thresholds, ai_score, context)
        result == [raised |-> FALSE, from_cache |-> FALSE, original_content |-> content,
                   outcome |-> outcome.kind, path |-> "adaptive",
                   ai_calls |-> 1, threshold_decisions |-> 1,
                   cache_result |-> CacheResultReturns,
                   ai_result |-> ai_result, final_decision |-> decision.decision]
    IN /\ CacheLookup(content, probability_thresholds) = NoValue
       /\ ai_result.is_dict
       /\ analysis_available
       /\ lastDecision' = decision
       /\ decidedWith' = thresholds
       /\ performance_metrics' = _record_decision(performance_metrics)
       /\ redis_data' = CacheStore(redis_data, content, result, probability_thresholds)
       /\ lastModeration' = result
       /\ moderations' = moderations + 1
       /\ UNCHANGED <<thresholds, updates, lastFeedback, analysis_available, cache_enabled, redis_fault>>

\* moderate_content, cache miss, probability-threshold path:
\* analyze_result_enhanced with the caller's thresholds, taken when
\* use_intelligent_processing is off or the intelligent modules are missing
ModerateProbability(content, probability_thresholds, use_intelligent_processing, enable_enhanced_analysis, outcome) ==
    LET ai_result == AIResult(outcome)
        enhanced_analysis ==
            perform_enhanced_analysis(content, enable_enhanced_analysis /\ analysis_available)
        result == [raised |-> FALSE, from_cache |-> FALSE, original_content |-> content,
                   outcome |-> outcome.kind, path |-> "probability",
                   ai_calls |-> 1, threshold_decisions |-> 1,
                   cache_result |-> CacheResultReturns,
                   ai_result |-> ai_result,
                   final_decision |->
                       analyze_result_enhanced(ai_result, probability_thresholds,
                                               enhanced_analysis)]
    IN /\ CacheLookup(content, probability_thresholds) = NoValue
       /\ ai_result.is_dict
       /\ ~(use_intelligent_processing /\ analysis_available)
       /\ redis_data' = CacheStore(redis_data, content, result, probability_thresholds)
       /\ lastModeration' = result
       /\ moderations' = moderations + 1
       /\ UNCHANGED <<varsT, analysis_available, cache_enabled, redis_fault>>

\* expiry of a Redis entry (setex with Config.CACHE_TTL)
RedisExpire(key) ==
    /\ key \in DOMAIN redis_data
    /\ redis_data' = [k \in DOMAIN redis_data \ {key} |-> redis_data[k]]
    /\ UNCHANGED <<varsT, analysis_available, cache_enabled, redis_fault, lastModeration, moderations>>

\* BatchProcessor._process_single_item: its own cache lookup, then
\* moderate_content with the default processing flags, then cache_result
\* once more with the result moderate_content has just cached
_process_single_item(content, probability_thresholds, outcome) ==
    LET cached == CacheLookup(content, probability_thresholds)
        Stored(returned) == IF returned = "True" THEN 1 ELSE 0
    IN \/ /\ cached # NoValue
          /\ lastItem' = [op |-> moderations + 1, content |-> content,
                          from_cache |-> TRUE, raised |-> FALSE,
                          final_decision |-> cached.final_decision,
                          ai_calls |-> 0, threshold_decisions |-> 0,
                          cache_stores |-> 0]
          /\ moderations' = moderations + 1
          /\ UNCHANGED <<varsT, analysis_available, cache_enabled, redis_data,
                         redis_fault, lastModeration>>
       \/ /\ cached = NoValue
          /\ \/ ModerateRaises(content, probability_thresholds, outcome)
             \/ ModerateAdaptive(content, probability_thresholds, TRUE, outcome, 12)
             \/ ModerateProbability(content, probability_thresholds, TRUE, TRUE, outcome)
          /\ lastItem' = [op |-> moderations + 1, content |-> content,
                          from_cache |-> FALSE, raised |-> lastModeration'.raised,
                          final_decision |-> lastModeration'.final_decision,
                          ai_calls |-> lastModeration'.ai_calls,
                          threshold_decisions |-> lastModeration'.threshold_decisions,
                          cache_stores |->
                              IF lastModeration'.raised THEN 0
                              ELSE Stored(lastModeration'.cache_result)
                                   + Stored(CacheResultReturns)]

\* a call of redis_client starts or stops raising (connection lost, timeout)
RedisFault(fault) ==
    /\ fault # redis_fault
    /\ redis_fault' = fault
    /\ UNCHANGED <<varsT, analysis_available, cache_enabled, redis_data, lastModeration, moderations>>

\* the optional modules may be missing and Redis may be unreachable
InitOptional ==
    /\ analysis_available \in BOOLEAN
    /\ cache_enabled \in BOOLEAN
    /\ redis_data = <<>>
    /\ redis_fault = [get |-> FALSE, setex |-> FALSE]
    /\ lastModeration = NoValue
    /\ moderations = 0
    /\ lastItem = NoValue

\* the full installation: all modules importable, Redis connected
InitM ==
    /\ analysis_available = TRUE
    /\ cache_enabled = TRUE
    /\ redis_data = <<>>
    /\ redis_fault = [get |-> FALSE, setex |-> FALSE]
    /\ lastModeration = NoValue
    /\ moderations = 0
    /\ lastItem = NoValue

(***************************************************************************)
(* BatchProcessor and the background batch task                            *)
(***************************************************************************)
MAX_BATCH_SIZE == 100
task_max_retries == 3

\* the contents lists of the batch requests: n distinct items
ItemNames == <<"ok1", "ok2", "fail-me">>
ItemContent(i) ==
    IF i <= Len(ItemNames) THEN ItemNames[i] ELSE "item" \o ToString(i)
ContentsOfLen(n) == [i \in 1..n |-> ItemContent(i)]
BatchContents == { ContentsOfLen(n) : n \in 1..MaxItems }

\* requests of the largest accepted size and of the smallest rejected one
LargeContents == { ContentsOfLen(MAX_BATCH_SIZE), ContentsOfLen(MAX_BATCH_SIZE + 1) }

\* faulty variant: a batch of exactly MAX_BATCH_SIZE items is rejected
ExceedsMaximum_inclusive(n) == n >= MAX_BATCH_SIZE

\* len(contents) > Config.MAX_BATCH_SIZE
ExceedsMaximum(n) == n > MAX_BATCH_SIZE

\* the response of _process_single_item: index is the 0-based position and
\* content stands for the fields computed from the item's content
\* (ai_result, final_decision, reason, word_count)
ItemResponse(content, index) == [index |-> index, error |-> FALSE, content |-> content]

\* results[index] = {"error": str(e), "index": index}
ItemError(index) == [index |-> index, error |-> TRUE, content |-> "none"]

\* the entries appended to job_info["errors"]; the batch-level entries have
\* no index key, written as -1
ErrorInfo(contents, index) ==
    [index |-> index, content_preview |-> contents[index + 1], error |-> "item"]

BatchFailure == [index |-> 0 - 1, content_preview |-> "none", error |-> "Batch processing failed"]

BackgroundFailure == [index |-> 0 - 1, content_preview |-> "none", error |-> "Background task failed"]

RECURSIVE Successful(_)
\* [r for r in results if r is not None and "error" not in r]
Successful(results) ==
    IF results = <<>> THEN <<>>
    ELSE LET r == Head(results)
         IN IF r # NoValue /\ ~r.error
            THEN <<r>> \o Successful(Tail(results))
            ELSE Successful(Tail(results))

Collecting == run # NoValue /\ run.phase = "collecting"

\* create_batch_job, and the request the endpoint keeps for the invocation
\* that follows (directly awaited or submitted to the background queue);
\* an oversized batch raises ValueError before anything is written
create_batch_job(contents, background) ==
    LET job_id == Cardinality(DOMAIN active_jobs) + 1
        job_info == [total_items |-> Len(contents), processed_items |-> 0,
                     status |-> "pending", results |-> <<>>, errors |-> <<>>,
                     progress_percent |-> 0, completed_at |-> -1]
    IN IF ExceedsMaximum(Len(contents))
       THEN /\ lastCreate' = [len |-> Len(contents), raised |-> TRUE, job_id |-> 0]
            /\ UNCHANGED <<active_jobs, requests, run, submitted, batch_metrics, lastCleanup, lastQuery>>
       ELSE /\ active_jobs' = [j \in DOMAIN active_jobs \cup {job_id} |->
                                  IF j = job_id THEN job_info ELSE active_jobs[j]]
            /\ requests' = [j \in DOMAIN requests \cup {job_id} |->
                               IF j = job_id
                               THEN [contents |-> contents, background |-> background,
                                     attempts |-> 0, retry_pending |-> FALSE]
                               ELSE requests[j]]
            /\ batch_metrics' =
                  [batch_requests |-> batch_metrics.batch_requests + 1,
                   batch_size_total |-> batch_metrics.batch_size_total + Len(contents)]
            /\ lastCreate' = [len |-> Len(contents), raised |-> FALSE, job_id |-> job_id]
            /\ UNCHANGED <<run, submitted, lastCleanup, lastQuery>>

\* process_batch_async, entry (lines 78-104): invoked once by the endpoint
\* or the background task, and again by the background task's retry
process_batch_async(job_id) ==
    /\ submitted + Len(requests[job_id].contents) <= MaxItems
    /\ ~Collecting
    /\ job_id \in DOMAIN active_jobs
    /\ \/ requests[job_id].attempts = 0
       \/ /\ requests[job_id].retry_pending
          /\ requests[job_id].attempts <= task_max_retries
    /\ active_jobs' = [active_jobs EXCEPT ![job_id].status = "processing"]
    /\ requests' = [requests EXCEPT ![job_id].attempts = @ + 1,
                                    ![job_id].retry_pending = FALSE]
    /\ run' = [job_id |-> job_id,
               contents |-> requests[job_id].contents,
               background |-> requests[job_id].background,
               phase |-> "collecting",
               futures |-> [i \in 1..Len(requests[job_id].contents) |-> "running"],
               results |-> [i \in 1..Len(requests[job_id].contents) |-> NoValue]]
    /\ submitted' = submitted + Len(requests[job_id].contents)
    /\ UNCHANGED <<lastCreate, batch_metrics, lastCleanup, lastQuery>>

Percent(processed_items, total_items) == (processed_items * 100) \div total_items

\* one iteration of the as_completed loop (lines 106-135): the future of
\* item i is the next to complete, its worker having returned a response
\* (ok) or raised, and the loop records it
CollectFuture(i, ok) ==
    LET job == active_jobs[run.job_id]
        index == i - 1
        counted == [job EXCEPT !.processed_items = @ + 1,
                               !.progress_percent =
                                   Percent(job.processed_items + 1, job.total_items)]
    IN /\ Collecting
       /\ i \in DOMAIN run.futures
       /\ run.futures[i] = "running"
       /\ run' = [run EXCEPT
                     !.futures[i] = "collected",
                     !.results[i] = IF ok THEN ItemResponse(run.contents[i], index)
                                    ELSE ItemError(index)]
       /\ active_jobs' =
            [active_jobs EXCEPT ![run.job_id] =
                IF ok THEN counted
                ELSE [counted EXCEPT !.errors = Append(@, ErrorInfo(run.contents, index))]]
       /\ UNCHANGED <<requests, submitted, lastCreate, batch_metrics, lastCleanup, lastQuery>>

\* the loop is over: lines 137-163
CompleteRun ==
    /\ Collecting
    /\ \A i \in DOMAIN run.futures : run.futures[i] = "collected"
    /\ active_jobs' = [active_jobs EXCEPT
                          ![run.job_id].results = Successful(run.results),
                          ![run.job_id].status = "completed",
                          ![run.job_id].completed_at = now,
                          ![run.job_id].progress_percent = 100]
    /\ run' = [run EXCEPT !.phase = "returned"]
    /\ UNCHANGED <<requests, submitted, lastCreate, batch_metrics, lastCleanup, lastQuery>>

\* an exception escapes the per-item loop (the pool cannot start a thread,
\* memory runs out, the task's soft time limit fires): lines 165-174, and
\* for a background task the handler of process_batch_background, lines
\* 100-121, which marks the job failed again and schedules the retry
FailRun ==
    LET job == active_jobs[run.job_id]
        failed == [job EXCEPT !.status = "failed", !.completed_at = now,
                              !.errors = Append(@, BatchFailure)]
    IN /\ Collecting
       /\ active_jobs' =
            [active_jobs EXCEPT ![run.job_id] =
                IF run.background
                THEN [failed EXCEPT !.errors = Append(@, BackgroundFailure)]
                ELSE failed]
       /\ requests' = [requests EXCEPT ![run.job_id].retry_pending = run.background]
       /\ run' = [run EXCEPT !.phase = "raised", !.futures = <<>>, !.results = <<>>]
       /\ UNCHANGED <<submitted, lastCreate, batch_metrics, lastCleanup, lastQuery>>

\* BatchProcessor.cleanup_old_jobs: the module imports datetime alone from
\* the datetime package (line 11), so evaluating timedelta in the first
\* statement raises NameError
cleanup_old_jobs ==
    \E max_age_hours \in {0, 24} :
        LET imported == {"asyncio", "logging", "List", "Dict", "Any", "Optional", "Tuple",
                         "datetime", "ThreadPoolExecutor", "as_completed", "uuid",
                         "ModerationService", "cache_manager", "metrics_collector", "Config"}
            cutoff_time == now - max_age_hours * 3600
            jobs_to_remove == {job_id \in DOMAIN active_jobs :
                                 /\ active_jobs[job_id].status \in {"completed", "failed"}
                                 /\ active_jobs[job_id].completed_at # -1
                                 /\ active_jobs[job_id].completed_at < cutoff_time}
        IN /\ IF "timedelta" \in imported
              THEN /\ active_jobs' = [job_id \in DOMAIN active_jobs \ jobs_to_remove |->
                                         active_jobs[job_id]]
                   /\ lastCleanup' = [max_age_hours |-> max_age_hours,
                                       raised |-> FALSE,
                                       returned |-> Cardinality(jobs_to_remove)]
              ELSE /\ lastCleanup' = [max_age_hours |-> max_age_hours,
                                       raised |-> TRUE, returned |-> -1]
                   /\ UNCHANGED active_jobs
           /\ UNCHANGED <<requests, run, submitted, lastCreate, batch_metrics, lastQuery>>
           /\ UNCHANGED <<varsT, varsM, varsC, varsS>>

\* faulty variant: the status test of lines 268-273 is missing
get_job_results_any_status(job_id) ==
    /\ lastQuery' =
          [method |-> "get_job_results", job_id |-> job_id,
           returned |->
              IF job_id \notin DOMAIN active_jobs THEN NoValue
              ELSE LET job_info == active_jobs[job_id]
                   IN [job_id |-> job_id, status |-> job_info.status,
                       total_items |-> job_info.total_items,
                       processed_items |-> job_info.processed_items,
                       results |-> job_info.results, errors |-> job_info.errors]]
    /\ UNCHANGED <<active_jobs, requests, run, submitted, lastCreate, batch_metrics, lastCleanup>>

\* BatchProcessor.get_job_results: None for an unknown job, the status and
\* a message while the job has not ended, the stored lists afterwards
get_job_results(job_id) ==
    /\ lastQuery' =
          [method |-> "get_job_results", job_id |-> job_id,
           returned |->
              IF job_id \notin DOMAIN active_jobs THEN NoValue
              ELSE LET job_info == active_jobs[job_id]
                   IN IF job_info.status \notin {"completed", "failed"}
                      THEN [job_id |-> job_id, status |-> job_info.status,
                            message |-> "Job not yet completed"]
                      ELSE [job_id |-> job_id, status |-> job_info.status,
                            total_items |-> job_info.total_items,
                            processed_items |-> job_info.processed_items,
                            results |-> job_info.results, errors |-> job_info.errors]]
    /\ UNCHANGED <<active_jobs, requests, run, submitted, lastCreate, batch_metrics, lastCleanup>>

\* BatchProcessor.get_job_status: None for an unknown job, otherwise a copy
\* of job_info with results replaced by results_count; the job itself keeps
\* its results
get_job_status(job_id) ==
    /\ lastQuery' =
          [method |-> "get_job_status", job_id |-> job_id,
           returned |->
              IF job_id \notin DOMAIN active_jobs THEN NoValue
              ELSE LET job_info == active_jobs[job_id]
                   IN [status |-> job_info.status,
                       total_items |-> job_info.total_items,
                       processed_items |-> job_info.processed_items,
                       progress_percent |-> job_info.progress_percent,
                       errors |-> job_info.errors,
                       completed_at |-> job_info.completed_at,
                       results_count |-> Len(job_info.results)]]
    /\ UNCHANGED <<active_jobs, requests, run, submitted, lastCreate, batch_metrics, lastCleanup>>

InitB ==
    /\ lastCleanup = NoValue
    /\ lastQuery = NoValue
    /\ active_jobs = <<>>
    /\ requests = <<>>
    /\ run = NoValue
    /\ submitted = 0
    /\ lastCreate = NoValue
    /\ batch_metrics = [batch_requests |-> 0, batch_size_total |-> 0]

(***************************************************************************)
(* SemanticCacheManager                                                    *)
(***************************************************************************)
CACHE_TTL == 3600
default_similarity_threshold == Pct(85)
cleanup_interval == 300
\* self.max_cache_size, 10000 in the source, scaled to the contents below
max_cache_size == 1
\* the clock advances in steps of this many seconds
TickSeconds == 100

CacheContents == {"free offer now", "free offer now today"}

\* text.lower().split(), as word counts
Vocabulary == {"free", "offer", "now", "today"}
WordsOf(content) ==
    IF content = "free offer now" THEN {"free", "offer", "now"}
    ELSE {"free", "offer", "now", "today"}

\* _generate_simple_embedding: one dimension per vocabulary word holding
\* the word's count (the normalisation cancels in the cosine)
generate_embedding(content) ==
    [w \in Vocabulary |-> IF w \in WordsOf(content) THEN 1 ELSE 0]

RECURSIVE SumOver(_, _)
SumOver(f, S) ==
    IF S = {} THEN 0
    ELSE LET x == CHOOSE y \in S : TRUE IN f[x] + SumOver(f, S \ {x})

RECURSIVE ISqrtIn(_, _, _)
\* the integer square root of n, between lo and hi
ISqrtIn(n, lo, hi) ==
    IF lo >= hi THEN lo
    ELSE LET mid == (lo + hi + 1) \div 2
         IN IF mid * mid <= n THEN ISqrtIn(n, mid, hi) ELSE ISqrtIn(n, lo, mid - 1)

\* calculate_similarity: the cosine, in Unit
calculate_similarity(embedding1, embedding2) ==
    LET dot_product == SumOver([w \in Vocabulary |-> embedding1[w] * embedding2[w]], Vocabulary)
        m1 == SumOver([w \in Vocabulary |-> embedding1[w] * embedding1[w]], Vocabulary)
        m2 == SumOver([w \in Vocabulary |-> embedding2[w] * embedding2[w]], Vocabulary)
    IN IF m1 = 0 \/ m2 = 0 THEN 0
       ELSE ISqrtIn((dot_product * dot_product * Unit * Unit) \div (m1 * m2), 0, Unit)

\* _generate_cache_key: the SHA-256 of the content, distinct for distinct contents
_generate_cache_key(content) == <<"sha256", content>>

ModerationResults == {"A", "R"}
TTLs == {TickSeconds, CACHE_TTL}
Strategies == {"exact_match", "hybrid"}

ActiveKeys(es) == { k \in DOMAIN es : es[k].status = "active" }

Without(es, keys) == [k \in DOMAIN es \ keys |-> es[k]]

CacheMiss(content) ==
    [content |-> content, hit |-> FALSE, similarity_score |-> 0,
     retrieval_method |-> "none", cache_entry |-> NoValue,
     at |-> now, op |-> cache_ops + 1]

\* search_similar(query_embedding, similarity_threshold, limit=1): the
\* active entries at or above the threshold with the highest similarity
search_similar(query_embedding, similarity_threshold) ==
    LET sim(k) == calculate_similarity(query_embedding,
                                       generate_embedding(entries[k].original_content))
        found == { k \in ActiveKeys(entries) : sim(k) >= similarity_threshold }
    IN { k \in found : \A other \in found : sim(k) >= sim(other) }

Accessed(key) ==
    [entries EXCEPT ![key].last_accessed = now, ![key].access_count = @ + 1]

Counted(hit) ==
    [analytics EXCEPT !.total_requests = @ + 1,
                      !.cache_hits = IF hit THEN @ + 1 ELSE @,
                      !.cache_misses = IF hit THEN @ ELSE @ + 1]

get_cached_result(content, strategy) ==
    LET cache_key == _generate_cache_key(content)
        exact == cache_key \in DOMAIN entries /\ entries[cache_key].status = "active"
        similar_entries ==
            IF strategy = "hybrid"
            THEN search_similar(generate_embedding(content), default_similarity_threshold)
            ELSE {}
    IN /\ cache_ops' = cache_ops + 1
       /\ IF exact
          THEN /\ entries' = Accessed(cache_key)
               /\ analytics' = Counted(TRUE)
               /\ lastGet' = [content |-> content, hit |-> TRUE,
                               similarity_score |-> Unit,
                               retrieval_method |-> "exact_match",
                               cache_entry |-> entries'[cache_key],
                               at |-> now, op |-> cache_ops + 1]
          ELSE IF similar_entries # {}
          THEN \E similar_key \in similar_entries :
                 /\ entries' = Accessed(similar_key)
                 /\ analytics' = Counted(TRUE)
                 /\ lastGet' = [content |-> content, hit |-> TRUE,
                                 similarity_score |->
                                     calculate_similarity(
                                         generate_embedding(content),
                                         generate_embedding(entries[similar_key].original_content)),
                                 retrieval_method |-> "semantic_similarity",
                                 cache_entry |-> entries'[similar_key],
                                 at |-> now, op |-> cache_ops + 1]
          ELSE /\ entries' = entries
               /\ analytics' = Counted(FALSE)
               /\ lastGet' = CacheMiss(content)
       /\ UNCHANGED <<sweep, now, stored, lastInvalidate, gets>>

\* get_cached_result run by worker thread w, one step of it.  No lock guards
\* self.analytics, and counter += 1 is a load followed by a store:
\*   idle      - line 335, the load of total_requests;
\*   counting  - the store of total_requests, the lookup of lines 337-378 and
\*               the load of cache_hits or cache_misses;
\*   recording - the store of that counter, and the return
get_cached_result_step(w, content, strategy) ==
    LET g == gets[w]
        cache_key == _generate_cache_key(g.content)
        exact == cache_key \in DOMAIN entries /\ entries[cache_key].status = "active"
        similar_entries ==
            IF g.strategy = "hybrid"
            THEN search_similar(generate_embedding(g.content), default_similarity_threshold)
            ELSE {}
        found == IF exact THEN {cache_key} ELSE similar_entries
    IN /\ IF g.pc = "idle"
          THEN /\ gets' = [gets EXCEPT ![w] = [pc |-> "counting", content |-> content,
                                                strategy |-> strategy, hit |-> FALSE,
                                                loaded |-> analytics.total_requests]]
               /\ cache_ops' = cache_ops + 1
               /\ UNCHANGED <<entries, analytics>>
          ELSE IF g.pc = "counting"
          THEN /\ analytics' = [analytics EXCEPT !.total_requests = g.loaded + 1]
               /\ IF found # {}
                  THEN \E key \in found : entries' = Accessed(key)
                  ELSE entries' = entries
               /\ gets' = [gets EXCEPT ![w].pc = "recording",
                                        ![w].hit = found # {},
                                        ![w].loaded = IF found # {}
                                                      THEN analytics.cache_hits
                                                      ELSE analytics.cache_misses]
               /\ UNCHANGED cache_ops
          ELSE /\ analytics' = IF g.hit
                                THEN [analytics EXCEPT !.cache_hits = g.loaded + 1]
                                ELSE [analytics EXCEPT !.cache_misses = g.loaded + 1]
               /\ gets' = [gets EXCEPT ![w] = [pc |-> "idle", content |-> "",
                                                strategy |-> "", hit |-> FALSE,
                                                loaded |-> 0]]
               /\ UNCHANGED <<entries, cache_ops>>
       /\ UNCHANGED <<sweep, now, lastGet, stored, lastInvalidate>>

store_result(content, moderation_result, ttl) ==
    LET cache_key == _generate_cache_key(content)
        cache_entry == [original_content |-> content,
                        moderation_result |-> moderation_result,
                        created_at |-> now, last_accessed |-> now,
                        access_count |-> 0, ttl |-> ttl, status |-> "active"]
    IN /\ entries' = [k \in DOMAIN entries \cup {cache_key} |->
                         IF k = cache_key THEN cache_entry ELSE entries[k]]
       /\ stored' = [c \in DOMAIN stored \cup {content} |->
                        IF c = content
                        THEN [moderation_result |-> moderation_result, created_at |-> now,
                              ttl |-> ttl, invalidated |-> FALSE,
                              op |-> cache_ops + 1]
                        ELSE stored[c]]
       /\ cache_ops' = cache_ops + 1
       /\ UNCHANGED <<sweep, now, analytics, lastGet, lastInvalidate, gets>>

\* the history entries of the contents whose entries an invalidation removes
Invalidated(keys) ==
    [c \in DOMAIN stored |->
        IF _generate_cache_key(c) \in keys
        THEN [stored[c] EXCEPT !.invalidated = TRUE] ELSE stored[c]]

\* pattern.lower() in entry.original_content.lower()
PatternIn(pattern, content) == pattern \in WordsOf(content)

Patterns == {"today"}

\* invalidate_cache(pattern, content_hash, cache_key), an argument left
\* out being <<>>: the first criterion given, in the order cache_key,
\* content_hash, pattern, selects the entries; content_hash is the SHA-256
\* of the content, which is the exact-match key.  The method counts the
\* entries in invalidated_count, logs the count and ends without a return
\* statement, so it returns None (returned = <<>>)
invalidate_cache(pattern, content_hash, cache_key) ==
    LET keys == IF cache_key # <<>>
                THEN {cache_key} \cap DOMAIN entries
                ELSE IF content_hash # <<>>
                THEN { k \in DOMAIN entries :
                         _generate_cache_key(entries[k].original_content) = content_hash }
                ELSE IF pattern # <<>>
                THEN { k \in DOMAIN entries :
                         PatternIn(pattern[1], entries[k].original_content) }
                ELSE {}
    IN /\ entries' = Without(entries, keys)
       /\ stored' = Invalidated(keys)
       /\ cache_ops' = cache_ops + 1
       /\ lastInvalidate' = [op |-> cache_ops + 1, pattern |-> pattern,
                              content_hash |-> content_hash, cache_key |-> cache_key,
                              invalidated_count |-> Cardinality(keys), returned |-> <<>>]
       /\ UNCHANGED <<sweep, now, analytics, lastGet, gets>>

\* _cleanup_expired_entries, first loop: mark the expired entries
CleanupMark ==
    LET expired_keys == { k \in ActiveKeys(entries) :
                            now - entries[k].created_at > entries[k].ttl }
    IN /\ sweep.pc = "sleeping"
       /\ now >= sweep.next_sweep
       /\ entries' = [k \in DOMAIN entries |->
                         IF k \in expired_keys
                         THEN [entries[k] EXCEPT !.status = "expired"] ELSE entries[k]]
       /\ sweep' = [sweep EXCEPT !.pc = "removing", !.expired_keys = expired_keys]
       /\ UNCHANGED <<now, analytics, lastGet, stored, cache_ops, lastInvalidate, gets>>

\* faulty variant: the active entries are sorted most recently accessed first
Evictable_most_recent(es) ==
    LET active == ActiveKeys(es)
        entries_to_remove == Cardinality(active) - max_cache_size
    IN IF entries_to_remove <= 0 THEN { {} }
       ELSE { E \in SUBSET active :
                /\ Cardinality(E) = entries_to_remove
                /\ \A e \in E, k \in active \ E :
                      es[e].last_accessed >= es[k].last_accessed }

\* _enforce_cache_size_limit: the sets of keys it may remove, the
\* least recently accessed active entries above max_cache_size
Evictable(es) ==
    LET active == ActiveKeys(es)
        entries_to_remove == Cardinality(active) - max_cache_size
    IN IF entries_to_remove <= 0 THEN { {} }
       ELSE { E \in SUBSET active :
                /\ Cardinality(E) = entries_to_remove
                /\ \A e \in E, k \in active \ E :
                      es[e].last_accessed <= es[k].last_accessed }

\* _cleanup_expired_entries, second loop (remove_entry for each of
\* expired_keys), then _enforce_cache_size_limit and time.sleep
CleanupRemove ==
    LET swept == Without(entries, sweep.expired_keys)
    IN /\ sweep.pc = "removing"
       /\ \E evicted \in Evictable(swept) :
             /\ entries' = Without(swept, evicted)
             /\ stored' = Invalidated(evicted)
       /\ sweep' = [pc |-> "sleeping", expired_keys |-> {},
                    next_sweep |-> now + cleanup_interval]
       /\ UNCHANGED <<now, analytics, lastGet, cache_ops, lastInvalidate, gets>>

InitC ==
    /\ entries = <<>>
    /\ sweep = [pc |-> "sleeping", expired_keys |-> {}, next_sweep |-> 0]
    /\ now = 0
    /\ analytics = [total_requests |-> 0, cache_hits |-> 0, cache_misses |-> 0]
    /\ lastGet = NoValue
    /\ stored = <<>>
    /\ cache_ops = 0
    /\ lastInvalidate = NoValue
    /\ gets = [w \in 1..2 |-> [pc |-> "idle", content |-> "", strategy |-> "",
                                hit |-> FALSE, loaded |-> 0]]

(***************************************************************************)
(* IntelligentContentProcessor (services/content_processor.py)             *)
(*                                                                         *)
(* A text is the sequence of its words.  Of a word the model keeps its     *)
(* kind, which is what the regular expressions see in it ("a" is a word of *)
(* one letter, every other kind has two letters or more), and its end,     *)
(* which is what follows it: "" a space, "." a full stop and then a space  *)
(* or the end of the text, ".P" a full stop and then a blank line.         *)
(***************************************************************************)
Texts ==
    LET Sentence(n, kind, end) ==
            [i \in 1..n |-> [kind |-> IF i = 1 \/ kind = "a" THEN kind ELSE "word",
                             end |-> IF i = n THEN end ELSE ""]]
    IN
    { Sentence(1, "word", "."), Sentence(3, "a", "."), Sentence(12, "#tag", "."),
      Sentence(4, "maybe", ".") \o Sentence(6, "word", "."),
      Sentence(20, "word", ".P") \o Sentence(20, "code", "."),
      Sentence(55, "review", "."),
      Sentence(30, "review", ".") \o Sentence(25, "word", "."),
      Sentence(60, "report", "."),
      Sentence(30, "report", ".P") \o Sentence(30, "word", "."),
      Sentence(60, "code", "."),
      Sentence(35, "code", ".") \o Sentence(30, "a", "."),
      Sentence(30, "word", ".") \o Sentence(30, "a", ".") \o Sentence(30, "word", "."),
      Sentence(60, "word", ".") \o Sentence(8, "word", ".") \o Sentence(45, "word", "."),
      Sentence(120, "report", "."),
      Sentence(110, "report", ".P") \o Sentence(25, "word", "."),
      Sentence(50, "#tag", "."),
      Sentence(30, "a", ".") \o Sentence(30, "a", ".") }

\* len(text): every word of two letters or more counts four characters
TextLen(text) ==
    IF text = <<>> THEN 0
    ELSE 4 * Cardinality({i \in DOMAIN text : text[i].kind # "a"})
         + Cardinality({i \in DOMAIN text : text[i].kind = "a"})
         + Cardinality({i \in DOMAIN text : text[i].end # ""})
         + Len(text) - 1

\* re.split at the words that end in one of ends and are followed by
\* whitespace: the pieces of the text, where left is what the split leaves
\* of the end of such a word
SplitAt(text, ends, left) ==
    LET B == {i \in 1..Len(text) : i = Len(text) \/ text[i].end \in ends}
        nth(k) == CHOOSE b \in B : Cardinality({j \in B : j <= b}) = k
        piece(b) ==
            LET from == IF \E j \in B : j < b
                    THEN 1 + (CHOOSE j \in B : j < b /\ \A h \in B : h < b => h <= j)
                    ELSE 1
            IN [i \in 1..(b - from + 1) |->
                   IF from + i - 1 = b /\ b < Len(text)
                   THEN [text[b] EXCEPT !.end = left] ELSE text[from + i - 1]]
    IN [k \in 1..Cardinality(B) |-> piece(nth(k))]

\* detect_content_type: the type whose patterns match most often, the first
\* of content_patterns on a tie, general without a match
detect_content_type(text) ==
    LET order == <<"#tag", "report", "review", "code">>
        types == <<"social_media", "news_article", "review", "technical">>
        matches(k) == Cardinality({i \in DOMAIN text : text[i].kind = order[k]})
    IN IF \A k \in 1..4 : matches(k) = 0 THEN "general"
       ELSE types[CHOOSE k \in 1..4 :
                     /\ \A j \in 1..4 : matches(j) <= matches(k)
                     /\ \A j \in 1..(k - 1) : matches(j) < matches(k)]

\* calculate_importance_score without the final max(0.0, min(1.0, score))
calculate_importance_score_unclamped(text) ==
    LET high == Cardinality({i \in DOMAIN text : text[i].kind # "a"})
        low == Cardinality({i \in DOMAIN text : text[i].kind = "maybe"})
        score == Pct(50) + high * Pct(30) - low * Pct(10)
    IN IF Len(text) < 5 THEN (score * 7) \div 10
       ELSE IF Len(text) > 50 THEN (score * 8) \div 10 ELSE score

\* calculate_importance_score: with re.IGNORECASE the pattern [A-Z]{2,}
\* matches every run of two or more letters, so each such word is a match
\* of level high; "maybe" is a match of level low as well
calculate_importance_score(text) ==
    LET high == Cardinality({i \in DOMAIN text : text[i].kind # "a"})
        low == Cardinality({i \in DOMAIN text : text[i].kind = "maybe"})
        score == Pct(50) + high * Pct(30) - low * Pct(10)
        adjusted == IF Len(text) < 5 THEN (score * 7) \div 10
                    ELSE IF Len(text) > 50 THEN (score * 8) \div 10 ELSE score
    IN Max(0, Min(Unit, adjusted))

ContentSegment(text, start_position, end_position, segment_type) ==
    [text |-> text, start_position |-> start_position, end_position |-> end_position,
     importance_score |-> calculate_importance_score(text), segment_type |-> segment_type]

get_processing_strategy(content_type, text_length) ==
    LET base == [segmentation_type |-> "semantic", min_segment_length |-> 10,
                 max_segment_length |-> 50, overlap_percentage |-> Pct(10),
                 importance_threshold |-> Pct(60), preserve_structure |-> TRUE]
        typed == CASE content_type = "social_media" ->
                        [base EXCEPT !.segmentation_type = "random", !.min_segment_length = 5,
                                     !.max_segment_length = 30, !.preserve_structure = FALSE]
                   [] content_type = "news_article" ->
                        [base EXCEPT !.segmentation_type = "structural",
                                     !.min_segment_length = 20, !.max_segment_length = 100]
                   [] content_type = "technical" ->
                        [base EXCEPT !.segmentation_type = "importance_based",
                                     !.min_segment_length = 15, !.max_segment_length = 80,
                                     !.importance_threshold = Pct(70)]
                   [] content_type = "review" ->
                        [base EXCEPT !.max_segment_length = 60]
                   [] OTHER -> base
    IN IF text_length < 50
       THEN [typed EXCEPT !.min_segment_length = Min(5, text_length \div 2),
                          !.max_segment_length = text_length,
                          !.segmentation_type = "random"]
       ELSE IF text_length > 500
            THEN [typed EXCEPT !.max_segment_length = Min(100, text_length \div 5),
                               !.importance_threshold = Pct(70)]
            ELSE typed

\* list.sort(key=importance_score, reverse=True): stable, descending
SortByImportance(segments) ==
    LET before(j, i) == \/ segments[j].importance_score > segments[i].importance_score
                        \/ /\ segments[j].importance_score = segments[i].importance_score
                           /\ j < i
        rank(i) == 1 + Cardinality({j \in DOMAIN segments : before(j, i)})
    IN [k \in DOMAIN segments |-> segments[CHOOSE i \in DOMAIN segments : rank(i) = k]]

segment_content_semantic(text, strategy) ==
    LET sentences == SplitAt(text, {".", ".P"}, "")
        segment(current, start_pos) ==
            ContentSegment(current, start_pos, start_pos + TextLen(current), "semantic")
        RECURSIVE loop(_, _, _, _)
        loop(i, current, start_pos, segments) ==
            IF i > Len(sentences)
            THEN IF current # <<>> /\ Len(current) >= strategy.min_segment_length
                 THEN Append(segments, segment(current, start_pos))
                 ELSE segments
            ELSE IF Len(current) + Len(sentences[i]) <= strategy.max_segment_length
                 THEN loop(i + 1, current \o sentences[i], start_pos, segments)
                 ELSE IF Len(current) >= strategy.min_segment_length
                      THEN loop(i + 1, sentences[i], start_pos + TextLen(current) + 1,
                                Append(segments, segment(current, start_pos)))
                      ELSE loop(i + 1, sentences[i], start_pos, segments)
    IN loop(1, <<>>, 0, <<>>)

segment_content_structural(text, strategy) ==
    LET paragraphs == SplitAt(text, {".P"}, ".")
        max == strategy.max_segment_length
        size == Max(max, 1)
        \* the word loop of lines 317-330: runs of max words, after an empty
        \* first run when not even one word fits
        runs(words) ==
            IF Len(words) <= max THEN <<words>>
            ELSE (IF max < 1 THEN << <<>> >> ELSE <<>>)
                 \o [k \in 1..((Len(words) + size - 1) \div size) |->
                        SubSeq(words, (k - 1) * size + 1, Min(k * size, Len(words)))]
        kept(words) == SelectSeq(runs(words), LAMBDA r : Len(r) >= strategy.min_segment_length)
        segments(words) ==
            [k \in 1..Len(kept(words)) |->
                ContentSegment(kept(words)[k], 0, TextLen(kept(words)[k]), "structural")]
        RECURSIVE all(_)
        all(i) == IF i > Len(paragraphs) THEN <<>> ELSE segments(paragraphs[i]) \o all(i + 1)
    IN all(1)

segment_content_importance(text, strategy) ==
    LET semantic_segments == SortByImportance(segment_content_semantic(text, strategy))
        important_segments ==
            SelectSeq(semantic_segments,
                      LAMBDA seg : seg.importance_score >= strategy.importance_threshold)
        chosen == IF important_segments = <<>>
                  THEN SubSeq(semantic_segments, 1, Min(3, Len(semantic_segments)))
                  ELSE important_segments
    IN [k \in DOMAIN chosen |-> [chosen[k] EXCEPT !.segment_type = "importance_based"]]

\* process_content, lines 552-581: the selection among the segments, where
\* target_percentage is <<>> for None
SelectSegments(segments, strategy, target_percentage) ==
    LET RECURSIVE words(_)
        words(i) == IF i > Len(segments) THEN 0 ELSE Len(segments[i].text) + words(i + 1)
        target_words == (words(1) * target_percentage[1]) \div Unit
        sorted == SortByImportance(segments)
        RECURSIVE take(_, _, _)
        take(i, selected, selected_words) ==
            IF i > Len(sorted) THEN selected
            ELSE IF selected_words + Len(sorted[i].text) <= target_words
                 THEN take(i + 1, Append(selected, sorted[i]),
                           selected_words + Len(sorted[i].text))
                 ELSE IF selected_words = 0 THEN Append(selected, sorted[i])
                      ELSE take(i + 1, selected, selected_words)
        above == SelectSeq(segments,
                           LAMBDA seg : seg.importance_score >= strategy.importance_threshold)
    IN IF target_percentage # <<>> THEN take(1, <<>>, 0)
       ELSE IF above = <<>> /\ segments # <<>> THEN <<sorted[1]>>
            ELSE above

\* the state of a segmentation that has begun: finished at once for every
\* algorithm but the random one on a text longer than max_segment_length
Segmentation(text, strategy, origin, target_percentage) ==
    LET started == [pc |-> "random", origin |-> origin, text |-> text,
                    strategy |-> strategy, target_percentage |-> target_percentage,
                    segments |-> <<>>, selected_segments |-> <<>>,
                    remaining_words |-> text, segment_count |-> 0]
        segments ==
            CASE strategy.segmentation_type = "semantic" ->
                    segment_content_semantic(text, strategy)
              [] strategy.segmentation_type = "structural" ->
                    segment_content_structural(text, strategy)
              [] strategy.segmentation_type = "importance_based" ->
                    segment_content_importance(text, strategy)
              [] OTHER -> <<ContentSegment(text, 0, TextLen(text), "random")>>
    IN IF strategy.segmentation_type = "random" /\ Len(text) > strategy.max_segment_length
       THEN started
       ELSE [started EXCEPT !.pc = "done", !.segments = segments, !.remaining_words = <<>>,
                            !.selected_segments =
                                IF origin = "process_content"
                                THEN SelectSegments(segments, strategy, target_percentage)
                                ELSE <<>>]

\* process_content on a non-empty text
process_content ==
    /\ processing.pc = "idle"
    /\ \E text \in Texts, target_percentage \in {<<>>, <<Pct(50)>>} :
          processing' = Segmentation(text,
                            get_processing_strategy(detect_content_type(text), Len(text)),
                            "process_content", target_percentage)
    /\ UNCHANGED <<varsT, varsM, varsB, varsC>>

\* a segment_content_ method called with a strategy of the caller's
segment_content ==
    /\ processing.pc = "idle"
    /\ \E text \in Texts, t \in {"semantic", "structural", "importance_based"},
          l \in {<<0, 1>>, <<5, 30>>} :
          processing' = Segmentation(text,
                            [segmentation_type |-> t, min_segment_length |-> l[1],
                             max_segment_length |-> l[2], overlap_percentage |-> Pct(10),
                             importance_threshold |-> Pct(60), preserve_structure |-> TRUE],
                            "direct", <<>>)
    /\ UNCHANGED <<varsT, varsM, varsB, varsC>>

\* segment_content_random, one pass of the while loop of lines 379-414 or
\* its end; random.randint(a, b) raises ValueError when a > b
segment_content_random ==
    /\ processing.pc = "random"
    /\ LET p == processing
           remaining_words == p.remaining_words
           lo == p.strategy.min_segment_length
           hi == Min(p.strategy.max_segment_length, Len(remaining_words))
       IN IF remaining_words = <<>> \/ p.segment_count >= 10
          THEN processing' =
                  [p EXCEPT !.pc = "done",
                            !.selected_segments =
                                IF p.origin = "process_content"
                                THEN SelectSegments(p.segments, p.strategy, p.target_percentage)
                                ELSE <<>>]
          ELSE IF lo > hi
               THEN processing' = [p EXCEPT !.pc = "raised"]
               ELSE \E drawn \in {lo, hi}, first \in BOOLEAN :
                      LET inside == Len(remaining_words) > drawn
                          segment_length == IF inside THEN drawn ELSE Len(remaining_words)
                          start_idx == IF inside /\ ~first
                                       THEN Len(remaining_words) - segment_length ELSE 0
                          segment_words ==
                              [i \in 1..segment_length |->
                                  [remaining_words[start_idx + i]
                                      EXCEPT !.end = IF @ = ".P" THEN "." ELSE @]]
                          remove_count == segment_length
                              - ((segment_length * p.strategy.overlap_percentage) \div Unit)
                      IN processing' =
                           [p EXCEPT
                              !.segments = Append(@, ContentSegment(segment_words, start_idx,
                                                      start_idx + segment_length, "random")),
                              !.remaining_words =
                                  IF start_idx = 0
                                  THEN SubSeq(remaining_words, remove_count + 1,
                                              Len(remaining_words))
                                  ELSE SubSeq(remaining_words, 1, start_idx)
                                       \o SubSeq(remaining_words, start_idx + remove_count + 1,
                                                 Len(remaining_words)),
                              !.segment_count = @ + 1]
    /\ UNCHANGED <<varsT, varsM, varsB, varsC>>

InitS ==
    processing = [pc |-> "idle", origin |-> "none", text |-> <<>>,
                  strategy |-> get_processing_strategy("general", 0),
                  target_percentage |-> <<>>, segments |-> <<>>,
                  selected_segments |-> <<>>, remaining_words |-> <<>>, segment_count |-> 0]

Init == InitT /\ InitM /\ InitB /\ InitC /\ InitS

InitAnyInstallation == InitT /\ InitOptional /\ InitB /\ InitC /\ InitS

(***************************************************************************)
(* SpecSegment: calls of the content processor                             *)
(***************************************************************************)
SpecSegment == Init /\ [][process_content \/ segment_content \/ segment_content_random]_vars

(***************************************************************************)
(* SpecLearn: the periodic learning task applying feedback batches         *)
(***************************************************************************)
Learn ==
    /\ updates < MaxUpdates
    /\ \E fb \in FeedbackBatches : update_thresholds_from_feedback(fb)
    /\ UNCHANGED <<lastFeedback, varsM, varsB, varsC, varsS>>

SpecLearn == Init /\ [][Learn]_vars

(***************************************************************************)
(* SpecDecide: decisions for any score and context, interleaved with       *)
(* learning                                                                *)
(***************************************************************************)
OpsLeft == updates + performance_metrics.total_decisions < MaxOps

LearnOnce ==
    /\ OpsLeft
    /\ \E fb \in FeedbackBatches : update_thresholds_from_feedback(fb)
    /\ UNCHANGED <<lastFeedback, varsM, varsB, varsC, varsS>>

Decide ==
    /\ OpsLeft
    /\ \E s \in Scores, c \in Contexts : MakeThresholdDecision(s, c)
    /\ UNCHANGED <<varsM, varsB, varsC, varsS>>

SpecDecide == Init /\ [][LearnOnce \/ Decide]_vars

(***************************************************************************)
(* SpecFeedback: feedback batches applied one after another, each call's   *)
(* feedback_data kept for comparison with what the call did                *)
(***************************************************************************)
Feedback ==
    /\ updates < MaxUpdates
    /\ \E fb \in FeedbackBatches :
          /\ update_thresholds_from_feedback(fb)
          /\ lastFeedback' = fb
    /\ UNCHANGED <<varsM, varsB, varsC, varsS>>

SpecFeedback == Init /\ [][Feedback]_vars

(***************************************************************************)
(* SpecModerate: moderate_content calls sharing the cache and the          *)
(* threshold manager                                                       *)
(***************************************************************************)
Moderate ==
    /\ moderations < MaxModerations
    /\ \E c \in ModContents, pt \in ProbabilityThresholds :
          \/ ModerateCached(c, pt)
          \/ \E o \in ClassifierOutcomes : ModerateRaises(c, pt, o)
          \/ \E o \in ClassifierOutcomes, e \in BOOLEAN, h \in Hours :
                ModerateAdaptive(c, pt, e, o, h)
          \/ \E o \in ClassifierOutcomes, i \in BOOLEAN, e \in BOOLEAN :
                ModerateProbability(c, pt, i, e, o)
    /\ UNCHANGED <<lastItem, varsB, varsC, varsS>>

Expire ==
    /\ \E k \in DOMAIN redis_data : RedisExpire(k)
    /\ UNCHANGED <<lastItem, varsB, varsC, varsS>>

SpecModerate == InitAnyInstallation /\ [][Moderate \/ Expire]_vars

(***************************************************************************)
(* SpecDegraded: moderate_content with the configuration defaults while    *)
(* calls of the Redis client start and stop raising                        *)
(***************************************************************************)
ModerateDefault ==
    /\ moderations < MaxModerations
    /\ \E c \in ModContents, o \in ClassifierOutcomes :
          \/ ModerateCached(c, NoValue)
          \/ ModerateRaises(c, NoValue, o)
          \/ ModerateAdaptive(c, NoValue, TRUE, o, 12)
          \/ ModerateProbability(c, NoValue, TRUE, TRUE, o)
    /\ UNCHANGED <<lastItem, varsB, varsC, varsS>>

Fault ==
    /\ \E fault \in [get : BOOLEAN, setex : BOOLEAN] : RedisFault(fault)
    /\ UNCHANGED <<lastItem, varsB, varsC, varsS>>

SpecDegraded == InitAnyInstallation /\ [][ModerateDefault \/ Fault \/ Expire]_vars

(***************************************************************************)
(* SpecItems: single requests and batch items sharing the result cache     *)
(***************************************************************************)
ProcessItem ==
    /\ moderations < MaxModerations
    /\ \E c \in ModContents, o \in ClassifierOutcomes : _process_single_item(c, NoValue, o)
    /\ UNCHANGED <<varsB, varsC, varsS>>

SpecItems == InitAnyInstallation /\ [][ModerateDefault \/ ProcessItem \/ Expire]_vars

(***************************************************************************)
(* SpecBatch: batch jobs, their worker threads and the background retry    *)
(***************************************************************************)
\* the endpoint starts each job it creates right away, so a new request
\* arrives only when every earlier job has been started (api_routes.py)
CreateJob ==
    /\ \A j \in DOMAIN requests : requests[j].attempts > 0
    /\ \E contents \in BatchContents, background \in BOOLEAN :
          /\ submitted + Len(contents) <= MaxItems
          /\ create_batch_job(contents, background)
    /\ UNCHANGED <<varsT, varsM, varsC, varsS>>

StartRun ==
    /\ \E job_id \in DOMAIN active_jobs : process_batch_async(job_id)
    /\ UNCHANGED <<varsT, varsM, varsC, varsS>>

Collect ==
    /\ \E i \in 1..MaxItems, ok \in BOOLEAN : CollectFuture(i, ok)
    /\ UNCHANGED <<varsT, varsM, varsC, varsS>>

Complete == CompleteRun /\ UNCHANGED <<varsT, varsM, varsC, varsS>>

Fail == FailRun /\ UNCHANGED <<varsT, varsM, varsC, varsS>>

SpecBatch == Init /\ [][CreateJob \/ StartRun \/ Collect \/ Complete \/ Fail]_vars

(***************************************************************************)
(* SpecSubmit: batch submissions of any size, accepted or rejected         *)
(***************************************************************************)
SubmitBatch ==
    /\ Cardinality(DOMAIN active_jobs) < MaxJobs
    /\ \E contents \in BatchContents \cup LargeContents, background \in BOOLEAN :
          create_batch_job(contents, background)
    /\ UNCHANGED <<varsT, varsM, varsC, varsS>>

SpecSubmit == Init /\ [][SubmitBatch]_vars

(***************************************************************************)
(* SpecCache: the semantic cache, its clock and its cleanup thread         *)
(***************************************************************************)
Get ==
    /\ cache_ops < MaxCacheOps
    /\ \E content \in CacheContents, strategy \in Strategies :
          get_cached_result(content, strategy)
    /\ UNCHANGED <<varsT, varsM, varsB, varsS>>

Store ==
    /\ cache_ops < MaxCacheOps
    /\ \E content \in CacheContents, r \in ModerationResults, ttl \in TTLs :
          store_result(content, r, ttl)
    /\ UNCHANGED <<varsT, varsM, varsB, varsS>>

Invalidate ==
    /\ cache_ops < MaxCacheOps
    /\ \/ \E content \in CacheContents :
             \/ invalidate_cache(<<>>, <<>>, _generate_cache_key(content))
             \/ invalidate_cache(<<>>, _generate_cache_key(content), <<>>)
       \/ \E pattern \in Patterns : invalidate_cache(<<pattern>>, <<>>, <<>>)
    /\ UNCHANGED <<varsT, varsM, varsB, varsS>>

SweepMark == CleanupMark /\ UNCHANGED <<varsT, varsM, varsB, varsS>>

SweepRemove == CleanupRemove /\ UNCHANGED <<varsT, varsM, varsB, varsS>>

Tick ==
    /\ now < MaxTicks * TickSeconds
    /\ now' = now + TickSeconds
    /\ UNCHANGED <<entries, sweep, analytics, lastGet, stored, cache_ops, lastInvalidate, gets>>
    /\ UNCHANGED <<varsT, varsM, varsB, varsS>>

SpecCache == Init /\ [][Get \/ Store \/ Invalidate \/ SweepMark \/ SweepRemove \/ Tick]_vars

\* SpecGets: worker threads calling get_cached_result at the same time,
\* between stores
WorkerGet ==
    /\ \E w \in DOMAIN gets, content \in CacheContents, strategy \in Strategies :
          /\ gets[w].pc = "idle" => cache_ops < MaxCacheOps
          /\ get_cached_result_step(w, content, strategy)
    /\ UNCHANGED <<varsT, varsM, varsB, varsS>>

SpecGets == Init /\ [][Store \/ WorkerGet]_vars

\* SpecEvict: the cache filled and read by workers and trimmed by the
\* cleanup thread alone, without invalidate_cache calls
SpecEvict == Init /\ [][Get \/ Store \/ SweepMark \/ SweepRemove \/ Tick]_vars

(***************************************************************************)
(* SpecCleanup: one-item jobs, the clock and the periodic cleanup task     *)
(***************************************************************************)
\* a request with a single item that the endpoint awaits itself, started
\* as soon as it is created
SubmitItem ==
    /\ \A j \in DOMAIN requests : requests[j].attempts > 0
    /\ submitted < MaxItems
    /\ create_batch_job(ContentsOfLen(1), FALSE)
    /\ UNCHANGED <<varsT, varsM, varsC, varsS>>

SpecCleanup ==
    Init /\ [][SubmitItem \/ StartRun \/ Collect \/ Complete \/ Fail \/ Tick \/ cleanup_old_jobs]_vars

(***************************************************************************)
(* SpecQuery: clients polling the status and the results of one-item jobs  *)
(* while the jobs are created and run                                      *)
(***************************************************************************)
Query ==
    /\ \E job_id \in 1..(Cardinality(DOMAIN active_jobs) + 1) :
          get_job_status(job_id) \/ get_job_results(job_id)
    /\ UNCHANGED <<varsT, varsM, varsC, varsS>>

SpecQuery == Init /\ [][SubmitItem \/ StartRun \/ Collect \/ Complete \/ Fail \/ Query]_vars

Severity(d) == CASE d = "A" -> 0 [] d = "M" -> 1 [] d = "R" -> 2

\* C2: for the context and threshold state of the decision just made, every
\* lower score gets a decision at most as severe and every higher score a
\* decision at least as severe (A < M < R).
C2_DecisionMonotone ==
    lastDecision # NoValue =>
        \A s \in Scores :
            LET d == make_threshold_decision(decidedWith, s, lastDecision.context).decision
            IN /\ s <= lastDecision.ai_score => Severity(d) <= Severity(lastDecision.decision)
               /\ s >= lastDecision.ai_score => Severity(d) >= Severity(lastDecision.decision)

\* C2 witness: a manual-review decision with a strictly lower score approved
\* and a strictly higher score rejected under the same context and thresholds.
C2_Witness ==
    /\ lastDecision # NoValue
    /\ lastDecision.decision = "M"
    /\ \E s1, s2 \in Scores :
          /\ s1 < lastDecision.ai_score /\ lastDecision.ai_score < s2
          /\ make_threshold_decision(decidedWith, s1, lastDecision.context).decision = "A"
          /\ make_threshold_decision(decidedWith, s2, lastDecision.context).decision = "R"

\* C9: the decision is R exactly when score >= adjusted rejection threshold,
\* M exactly when adjusted manual-review threshold <= score < adjusted
\* rejection threshold, and A otherwise, both thresholds being those of
\* calculate_adjusted_threshold for the same context.
C9_DecisionByThresholds ==
    lastDecision # NoValue =>
        LET rej == calculate_adjusted_threshold(decidedWith, "rejection", lastDecision.context).value
            man == calculate_adjusted_threshold(decidedWith, "manual_review", lastDecision.context).value
            s == lastDecision.ai_score
        IN /\ lastDecision.decision = "R" <=> s >= rej
           /\ lastDecision.decision = "M" <=> (s < rej /\ s >= man)
           /\ lastDecision.decision = "A" <=> (s < rej /\ s < man)

\* C9 witness: a score equal to the adjusted rejection threshold was rejected.
C9_Witness ==
    /\ lastDecision # NoValue
    /\ lastDecision.decision = "R"
    /\ lastDecision.ai_score =
           calculate_adjusted_threshold(decidedWith, "rejection", lastDecision.context).value

\* C3 (as stated): whenever the classifier call fails (exception, empty
\* response, or a response without a usable inappropriate_probability), a
\* moderate_content call that returns treats the score as 100 and its final
\* decision is never "A", on the adaptive path and on the probability path,
\* for every probability_thresholds of the caller.
C3_FailClosed ==
    (/\ lastModeration # NoValue
     /\ ~lastModeration.from_cache
     /\ ~lastModeration.raised
     /\ lastModeration.outcome \in ClassifierFailures)
    => (/\ GetProb(lastModeration.ai_result, 0) = 100
        /\ lastModeration.ai_result.has_prob
        /\ lastModeration.final_decision # "A")

\* the job whose process_batch_async invocation has just returned
Finished == run # NoValue /\ run.phase = "returned"

\* C4 (as stated): for a batch job that has finished and every index
\* i < len(contents), the entry at position i of the job's stored results
\* is the result computed from contents[i], whatever the completion order
\* and whether or not other items failed.
C4_ResultsIndexed ==
    Finished =>
        LET results == active_jobs[run.job_id].results
        IN \A i \in 1..Len(run.contents) :
              /\ i <= Len(results)
              /\ results[i] = ItemResponse(run.contents[i], i - 1)

\* the items of the invocation that raised during per-item processing
RaisedItems == { i \in DOMAIN run.results : run.results[i].error }

\* C5 (as stated): if exactly k of the n items of a batch raise, then when
\* process_batch_async finishes the job is completed, processed_items = n,
\* errors has k entries, each carrying the index of its failing item, and
\* exactly n-k successful entries are stored in results.
C5_PartialFailure ==
    Finished =>
        LET job == active_jobs[run.job_id]
            n == Len(run.contents)
            k == Cardinality(RaisedItems)
        IN /\ job.status = "completed"
           /\ job.processed_items = n
           /\ Len(job.errors) = k
           /\ \A e \in DOMAIN job.errors : job.errors[e].index + 1 \in RaisedItems
           /\ Len(job.results) = n - k
           /\ \A r \in DOMAIN job.results : ~job.results[r].error

Terminal(status) == status \in {"completed", "failed"}

\* C6 (as stated): processed_items of a job never decreases, and whenever
\* the job's status is completed or failed, processed_items = total_items.
C6_ProcessedCount ==
    /\ [](\A j \in DOMAIN active_jobs :
            Terminal(active_jobs[j].status) =>
                active_jobs[j].processed_items = active_jobs[j].total_items)
    /\ [][\A j \in DOMAIN active_jobs :
            active_jobs'[j].processed_items >= active_jobs[j].processed_items]_vars

\* C10 (as stated): a job's status changes only pending -> processing,
\* processing -> completed or processing -> failed; it becomes completed
\* only when every index has been resolved, it becomes failed only when an
\* exception escapes the per-item loop, and a completed or failed job
\* never changes status again.
C10_StatusTransitions ==
    [][\A j \in DOMAIN active_jobs :
          LET old == active_jobs[j].status
              new == active_jobs'[j].status
          IN old # new =>
                /\ <<old, new>> \in { <<"pending", "processing">>,
                                       <<"processing", "completed">>,
                                       <<"processing", "failed">> }
                /\ new = "completed" =>
                      /\ run.job_id = j
                      /\ \A i \in DOMAIN run.futures : run.futures[i] = "collected"
                /\ new = "failed" => (run.job_id = j /\ run'.phase = "raised")]_vars

\* C7 (as stated): store_result(c, r) followed by get_cached_result(c)
\* before the entry's ttl has elapsed, with no invalidation of c in
\* between, returns a hit with similarity_score 1.0, retrieval method
\* exact_match and moderation_result r.
C7_RoundTrip ==
    (/\ lastGet # NoValue
     /\ lastGet.content \in DOMAIN stored
     /\ stored[lastGet.content].op < lastGet.op
     /\ ~stored[lastGet.content].invalidated
     /\ lastGet.at - stored[lastGet.content].created_at < stored[lastGet.content].ttl)
    => (/\ lastGet.hit
        /\ lastGet.similarity_score = Unit
        /\ lastGet.retrieval_method = "exact_match"
        /\ lastGet.cache_entry.moderation_result
               = stored[lastGet.content].moderation_result)

\* C8 (as stated): get_cached_result never returns an entry whose age
\* (now - created_at) has reached its ttl, whether or not the sweep has run
\* since the expiry, and returns an entry only while its status is ACTIVE.
C8_NoExpiredHit ==
    (lastGet # NoValue /\ lastGet.hit)
    => (/\ lastGet.cache_entry.status = "active"
        /\ lastGet.at - lastGet.cache_entry.created_at < lastGet.cache_entry.ttl)

\* C11: create_batch_job with len(contents) > MAX_BATCH_SIZE raises and
\* leaves active_jobs and the batch metrics unchanged; with
\* len(contents) <= MAX_BATCH_SIZE it adds exactly one new job, in status
\* pending with processed_items = 0, and changes no other job.
C11_CreateBatchJob ==
    [][(lastCreate' # lastCreate \/ DOMAIN active_jobs' # DOMAIN active_jobs) =>
          IF lastCreate'.len > MAX_BATCH_SIZE
          THEN /\ lastCreate'.raised
               /\ active_jobs' = active_jobs
               /\ batch_metrics' = batch_metrics
          ELSE /\ ~lastCreate'.raised
               /\ lastCreate'.job_id \notin DOMAIN active_jobs
               /\ DOMAIN active_jobs' = DOMAIN active_jobs \cup {lastCreate'.job_id}
               /\ \A j \in DOMAIN active_jobs : active_jobs'[j] = active_jobs[j]
               /\ active_jobs'[lastCreate'.job_id].status = "pending"
               /\ active_jobs'[lastCreate'.job_id].processed_items = 0
               /\ active_jobs'[lastCreate'.job_id].total_items = lastCreate'.len]_vars

\* C11 witness: an oversized batch was rejected after a batch of exactly
\* MAX_BATCH_SIZE items had been accepted as a pending job.
C11_Witness ==
    /\ lastCreate # NoValue
    /\ lastCreate.raised
    /\ \E j \in DOMAIN active_jobs :
          /\ active_jobs[j].total_items = MAX_BATCH_SIZE
          /\ active_jobs[j].status = "pending"


\* C12: when the Redis backend is disabled, was unreachable at start-up, or its call raises, get_cached_result returns a miss and cache_result returns False and stores nothing; neither raises, so moderate_content goes on to its decision (it raises only for a classifier response that is not a JSON object, as it does with a working cache).
C12_CacheFailSafe ==
    [][moderations' # moderations =>
         /\ (~cache_enabled \/ redis_fault.get) => /\ ~lastModeration'.from_cache
                                                     /\ lastModeration'.ai_calls = 1
         /\ (~cache_enabled \/ redis_fault.setex) => /\ redis_data' = redis_data
                                                       /\ lastModeration'.cache_result # "True"
         /\ ((~cache_enabled \/ redis_fault.get) /\ lastModeration'.ai_result.is_dict) =>
                /\ ~lastModeration'.raised
                /\ lastModeration'.final_decision \in {"A", "R", "M"}]_vars

\* a call that missed because get raised although the entry was there, and whose store then failed too
C12_Witness ==
    /\ cache_enabled /\ redis_fault.get /\ redis_fault.setex
    /\ lastModeration # NoValue
    /\ ~lastModeration.from_cache /\ lastModeration.cache_result = "False"
    /\ CacheKey(lastModeration.original_content, NoValue) \in DOMAIN redis_data
    /\ lastModeration.final_decision \in {"A", "R", "M"}

\* C13: over a working cache, a request for content whose result is in the cache (an earlier request with the same configuration completed and the TTL has not elapsed) returns the cached decision with no classifier call, no threshold decision and no cache store; a request that misses and completes has called the classifier exactly once and stored the result exactly once.
C13_CacheDeduplicates ==
    [][(cache_enabled /\ moderations' # moderations) =>
         LET batch == lastItem' # lastItem
             content == IF batch THEN lastItem'.content ELSE lastModeration'.original_content
             key == CacheKey(content, NoValue)
             from_cache == IF batch THEN lastItem'.from_cache ELSE lastModeration'.from_cache
             raised == IF batch THEN lastItem'.raised ELSE lastModeration'.raised
             decision == IF batch THEN lastItem'.final_decision ELSE lastModeration'.final_decision
             ai_calls == IF batch THEN lastItem'.ai_calls ELSE lastModeration'.ai_calls
             decisions == IF batch THEN lastItem'.threshold_decisions
                          ELSE lastModeration'.threshold_decisions
             stores == IF batch THEN lastItem'.cache_stores
                       ELSE IF lastModeration'.cache_result = "True" THEN 1 ELSE 0
         IN IF key \in DOMAIN redis_data
            THEN /\ from_cache /\ decision = redis_data[key].final_decision
                 /\ ai_calls = 0 /\ decisions = 0 /\ stores = 0
            ELSE ~raised => (ai_calls = 1 /\ stores = 1)]_vars

\* C14 (as stated): every ContentSegment a segmentation algorithm produces, for any non-empty text and any strategy, has 0 <= importance_score <= 1 and end_position > start_position.
C14_AnyStrategy ==
    \A i \in DOMAIN processing.segments :
        /\ 0 <= processing.segments[i].importance_score
        /\ processing.segments[i].importance_score <= Unit
        /\ processing.segments[i].end_position > processing.segments[i].start_position

\* C14 (amended): every ContentSegment that process_content produces, with the strategy get_processing_strategy chooses for the text, by any of the four algorithms, has 0 <= importance_score <= 1 and end_position > start_position.
C14_ChosenStrategy ==
    processing.origin = "process_content" =>
        \A i \in DOMAIN processing.segments :
            LET segment == processing.segments[i]
            IN /\ segment.importance_score \in 0..Unit
               /\ segment.end_position > segment.start_position

\* process_content has cut a text into several semantic segments, the later ones at positions above 0 and with a clamped score
C14_Witness ==
    /\ processing.origin = "process_content" /\ processing.pc = "done"
    /\ Len(processing.segments) >= 2
    /\ processing.segments[2].segment_type = "semantic"
    /\ processing.segments[2].start_position > 0
    /\ calculate_importance_score_unclamped(processing.segments[2].text) > Unit

\* C15: for a non-empty text with fewer words than the max_segment_length of the strategy chosen for it, process_content yields exactly one segment, whose text is the whole input, whichever segmentation kind the strategy selects.
C15_ShortTextOneSegment ==
    (/\ processing.origin = "process_content" /\ processing.pc = "done"
     /\ Len(processing.text) < processing.strategy.max_segment_length) =>
        /\ Len(processing.segments) = 1
        /\ Len(processing.selected_segments) = 1
        /\ processing.selected_segments[1].text = processing.text

\* C16: cleanup_old_jobs(max_age_hours) completes normally, removes exactly the jobs whose status is completed or failed and whose completed_at is older than max_age_hours, returns the number removed, and leaves every other job unchanged.
C16_CleanupOldJobs ==
    [][lastCleanup' # lastCleanup =>
         LET old == {j \in DOMAIN active_jobs :
                       /\ active_jobs[j].status \in {"completed", "failed"}
                       /\ active_jobs[j].completed_at # -1
                       /\ active_jobs[j].completed_at < now - lastCleanup'.max_age_hours * 3600}
         IN /\ ~lastCleanup'.raised
            /\ lastCleanup'.returned = Cardinality(old)
            /\ DOMAIN active_jobs' = DOMAIN active_jobs \ old
            /\ \A j \in DOMAIN active_jobs' : active_jobs'[j] = active_jobs[j]]_vars

\* C17: invalidate_cache, by cache key, by content hash or by pattern, removes from the store every entry that matches the criterion and no other entry, and returns the number of entries removed; the removed entries are gone, so an exact get of their content is a miss.
C17_InvalidateReturnsCount ==
    [][lastInvalidate' # lastInvalidate =>
         LET call == lastInvalidate'
             matching ==
                 { k \in DOMAIN entries :
                     IF call.cache_key # <<>> THEN k = call.cache_key
                     ELSE IF call.content_hash # <<>>
                     THEN _generate_cache_key(entries[k].original_content) = call.content_hash
                     ELSE PatternIn(call.pattern[1], entries[k].original_content) }
         IN /\ DOMAIN entries' = DOMAIN entries \ matching
            /\ \A k \in DOMAIN entries' : entries'[k] = entries[k]
            /\ call.returned = <<Cardinality(matching)>>]_vars

\* C18: calculate_adjusted_threshold(kind, context) returns clamp(current_value + the sum of adjustment * confidence over every rule whose condition matches the context, min_value, max_value) together with exactly the matching rules, in rule order; the value lies in [min_value, max_value] and the call leaves the thresholds unchanged.
C18_AdjustedThreshold ==
    [][lastDecision' # lastDecision =>
         LET kind == IF lastDecision'.threshold_type = "rejection"
                     THEN "rejection" ELSE "manual_review"
             base == thresholds[kind]
             matching == {n \in DOMAIN adjustment_rules :
                            _evaluate_context_condition(adjustment_rules[n].condition,
                                                        lastDecision'.context)}
             RECURSIVE Sum(_)
             Sum(S) == IF S = {} THEN 0
                       ELSE LET n == CHOOSE m \in S : TRUE
                            IN (adjustment_rules[n].adjustment
                                  * adjustment_rules[n].confidence) \div Unit
                               + Sum(S \ {n})
             total == base.current_value + Sum(matching)
             applied == lastDecision'.adjustments_applied
         IN /\ lastDecision'.threshold_used =
                  IF total < base.min_value THEN base.min_value
                  ELSE IF total > base.max_value THEN base.max_value ELSE total
            /\ base.min_value <= lastDecision'.threshold_used
            /\ lastDecision'.threshold_used <= base.max_value
            /\ Len(applied) = Cardinality(matching)
            /\ \A i \in DOMAIN applied :
                  \E n \in matching :
                      /\ applied[i] = adjustment_rules[n].condition
                      /\ Cardinality({m \in matching : m < n}) = i - 1
            /\ thresholds' = thresholds]_vars

\* a decision whose threshold was cut off at a bound after several rules applied
C18_Witness ==
    /\ lastDecision # NoValue
    /\ Len(lastDecision.adjustments_applied) >= 2
    /\ \E kind \in {"rejection", "manual_review"} :
          /\ lastDecision.threshold_used \in
                 {decidedWith[kind].min_value, decidedWith[kind].max_value}
          /\ calculate_adjusted_threshold_unbounded(decidedWith, kind,
                                                    lastDecision.context).value
                # lastDecision.threshold_used
          /\ calculate_adjusted_threshold(decidedWith, kind, lastDecision.context).value
                = lastDecision.threshold_used
\* C19: update_thresholds_from_feedback counts a record as a false positive
\* exactly when predicted is R or M and actual is A, and as a false negative
\* exactly when predicted is A and actual is R or M; the rejection threshold
\* is lowered iff false positives exceed 10% of the batch, the manual-review
\* threshold iff false negatives do, and otherwise each value is unchanged.
C19_FeedbackClassification ==
    [][(updates' # updates /\ lastFeedback' # <<>>) =>
        LET fb == lastFeedback'
            total == Len(fb)
            fp == Cardinality({i \in DOMAIN fb :
                      /\ fb[i].predicted_decision \in {"R", "M"}
                      /\ fb[i].actual_decision = "A"})
            fn == Cardinality({i \in DOMAIN fb :
                      /\ fb[i].predicted_decision = "A"
                      /\ fb[i].actual_decision \in {"R", "M"}})
            expected(t, count) ==
                IF 10 * count > total
                THEN Max(thresholds[t].min_value,
                         thresholds[t].current_value + LearnAdjustment(count, total))
                ELSE thresholds[t].current_value
        IN /\ performance_metrics'.false_positives = performance_metrics.false_positives + fp
           /\ performance_metrics'.false_negatives = performance_metrics.false_negatives + fn
           /\ thresholds'["rejection"].current_value = expected("rejection", fp)
           /\ thresholds'["manual_review"].current_value = expected("manual_review", fn)
      ]_vars

\* C20 as stated: the adjusted thresholds can invert. Starting from the
\* configured defaults there is a sequence of learning updates and a context
\* for which the adjusted rejection threshold is lower than the adjusted
\* manual-review threshold.
C20_CanInvert ==
    updates = 0 =>
        LET RECURSIVE Learned(_)
            Learned(n) ==
                IF n = 0 THEN {thresholds}
                ELSE LET prev == Learned(n - 1)
                     IN prev \cup { UpdatedThresholds(thr, fb) :
                                      thr \in prev, fb \in FeedbackBatches \ {<<>>} }
        IN \E thr \in Learned(MaxUpdates), c \in Contexts :
              calculate_adjusted_threshold(thr, "rejection", c).value
                < calculate_adjusted_threshold(thr, "manual_review", c).value

\* C20 amended: the adjusted thresholds never invert. In every state reached
\* by learning updates, for every context, the adjusted
\* rejection threshold is not lower than the adjusted manual-review threshold.
C20_NeverInverted ==
    \A c \in Contexts :
        calculate_adjusted_threshold(thresholds, "rejection", c).value
          >= calculate_adjusted_threshold(thresholds, "manual_review", c).value

\* C20 witness: learning has lowered the rejection threshold to its lower
\* bound, as close to the manual-review threshold as it gets, and there are
\* contexts whose rules push both adjusted thresholds onto their upper bounds
\* and others that push both onto their lower bounds, each clamped on its own.
C20_Witness ==
    /\ updates > 0
    /\ thresholds["rejection"].current_value = thresholds["rejection"].min_value
    /\ \A bound \in {"min_value", "max_value"} :
          \E c \in Contexts :
             LET rej == calculate_adjusted_threshold(thresholds, "rejection", c)
                 man == calculate_adjusted_threshold(thresholds, "manual_review", c)
             IN /\ rej.applied # <<>>
                /\ rej.value = thresholds["rejection"][bound]
                /\ man.value = thresholds["manual_review"][bound]

\* C21: after _enforce_cache_size_limit has run, at most max_cache_size
\* entries are active, every entry it evicted was last accessed no later than
\* every entry it retained, and when the active count was already within the
\* bound it removed nothing.
C21_EnforceCacheSizeLimit ==
    [][(sweep.pc = "removing" /\ sweep'.pc = "sleeping") =>
        LET swept == Without(entries, sweep.expired_keys)
            evicted == DOMAIN swept \ DOMAIN entries'
            retained == DOMAIN entries'
        IN /\ Cardinality(ActiveKeys(entries')) <= max_cache_size
           /\ retained \subseteq DOMAIN swept
           /\ \A k \in retained : entries'[k] = swept[k]
           /\ \A e \in evicted : swept[e].status = "active"
           /\ \A e \in evicted, k \in ActiveKeys(entries') :
                  swept[e].last_accessed <= entries'[k].last_accessed
           /\ Cardinality(ActiveKeys(swept)) <= max_cache_size => entries' = swept
      ]_vars

\* C21 witness: the sweep has evicted an entry that had not expired and kept
\* max_cache_size active entries, one of them accessed after the evicted
\* entry was stored.
C21_Witness ==
    /\ sweep.pc = "sleeping"
    /\ Cardinality(ActiveKeys(entries)) = max_cache_size
    /\ \E c \in DOMAIN stored :
          /\ stored[c].invalidated
          /\ now - stored[c].created_at <= stored[c].ttl
          /\ _generate_cache_key(c) \notin DOMAIN entries
          /\ \E k \in ActiveKeys(entries) : entries[k].last_accessed > stored[c].created_at

\* C22: under any interleaving of the background sweep with store_result
\* calls, the sweep removes only entries whose age exceeds their ttl at the
\* moment of removal; an entry stored or re-stored during the sweep is never
\* removed by it.
C22_SweepRemovesOnlyExpired ==
    [][(sweep.pc = "removing" /\ sweep'.pc = "sleeping") =>
        \A key \in sweep.expired_keys \cap DOMAIN entries :
            now - entries[key].created_at > entries[key].ttl
      ]_vars

\* C23: for an input with more words than max_segment_length and a strategy
\* chosen by get_processing_strategy, segment_content_random never raises,
\* runs at most 10 passes of its loop, returns between 1 and 10 segments, and
\* stops before the tenth pass only when no words remain.
C23_RandomTerminates ==
    (/\ processing.origin = "process_content"
     /\ processing.strategy.segmentation_type = "random"
     /\ Len(processing.text) > processing.strategy.max_segment_length) =>
        /\ processing.pc # "raised"
        /\ processing.segment_count <= 10
        /\ processing.pc = "done" =>
              /\ Len(processing.segments) \in 1..10
              /\ processing.remaining_words = <<>> \/ processing.segment_count = 10

\* C24: the ThresholdContext used for an item's adaptive decision carries the
\* sentiment score, primary topic, content type and language that
\* perform_enhanced_analysis produced for that item's content.
C24_ContextFromAnalysis ==
    (/\ lastModeration # NoValue
     /\ ~lastModeration.raised
     /\ lastModeration.path = "adaptive") =>
        LET enhanced_analysis ==
                perform_enhanced_analysis(lastModeration.original_content, analysis_available)
            context == lastDecision.context
        IN /\ "sentiment_analysis" \in DOMAIN enhanced_analysis =>
                context.sentiment_score = enhanced_analysis["sentiment_analysis"].score
           /\ "topic_extraction" \in DOMAIN enhanced_analysis =>
                /\ context.primary_topic = enhanced_analysis["topic_extraction"].primary_topic
                /\ context.content_type = enhanced_analysis["topic_extraction"].content_type
                /\ context.language = enhanced_analysis["topic_extraction"].language

\* C25: segment_content_importance returns exactly the semantic segments
\* whose importance_score is at least importance_threshold; if none qualifies
\* and a semantic segment exists, it returns exactly one segment, the one
\* with the highest importance_score.
C25_ImportanceSelection ==
    (/\ processing.pc = "done"
     /\ processing.strategy.segmentation_type = "importance_based") =>
        LET semantic == segment_content_semantic(processing.text, processing.strategy)
            qualifies(i) ==
                semantic[i].importance_score >= processing.strategy.importance_threshold
            qualifying == {i \in DOMAIN semantic : qualifies(i)}
            returned == processing.segments
            same(seg, i) == [seg EXCEPT !.segment_type = "semantic"] = semantic[i]
        IN IF qualifying # {}
           THEN /\ Len(returned) = Cardinality(qualifying)
                /\ \A i \in qualifying : \E k \in DOMAIN returned : same(returned[k], i)
           ELSE semantic # <<>> =>
                /\ Len(returned) = 1
                /\ \E i \in DOMAIN semantic : same(returned[1], i)
                /\ \A i \in DOMAIN semantic :
                      returned[1].importance_score >= semantic[i].importance_score

\* C26: in semantic segmentation, when adding the next sentence would exceed
\* max_segment_length, the accumulated text is emitted as a segment if it has
\* at least min_segment_length words and is otherwise merged into the next
\* segment, so the segments returned are those of this accumulation and no
\* sentence is dropped while a later segment is still emitted.
C26_SemanticMerge ==
    (/\ processing.pc = "done"
     /\ processing.strategy.segmentation_type = "semantic") =>
        LET strategy == processing.strategy
            sentences == SplitAt(processing.text, {".", ".P"}, "")
            RECURSIVE merged(_, _, _)
            merged(i, current, out) ==
                IF i > Len(sentences)
                THEN IF current # <<>> /\ Len(current) >= strategy.min_segment_length
                     THEN Append(out, current) ELSE out
                ELSE IF Len(current) + Len(sentences[i]) <= strategy.max_segment_length
                     THEN merged(i + 1, current \o sentences[i], out)
                     ELSE IF Len(current) >= strategy.min_segment_length
                          THEN merged(i + 1, sentences[i], Append(out, current))
                          ELSE merged(i + 1, current \o sentences[i], out)
        IN [k \in DOMAIN processing.segments |-> processing.segments[k].text]
             = merged(1, <<>>, <<>>)

\* C27: for every job in every reachable state, 0 <= processed_items <=
\* total_items and progress_percent <= 100, also when process_batch_async is
\* invoked again for the same job id by the background task's retry.
C27_ProgressWithinTotal ==
    \A j \in DOMAIN active_jobs :
        /\ 0 <= active_jobs[j].processed_items
        /\ active_jobs[j].processed_items <= active_jobs[j].total_items
        /\ active_jobs[j].progress_percent <= 100

C29_JobQueries ==
    [][lastQuery' # lastQuery =>
        LET q == lastQuery'
            known == q.job_id \in DOMAIN active_jobs
        IN /\ active_jobs' = active_jobs
           /\ ~known => q.returned = NoValue
           /\ (known /\ q.method = "get_job_status") => q.returned # NoValue
           /\ (known /\ q.method = "get_job_results") =>
                 LET job_info == active_jobs[q.job_id]
                 IN IF job_info.status \in {"completed", "failed"}
                    THEN /\ {"results", "errors"} \subseteq DOMAIN q.returned
                         /\ q.returned.status = job_info.status
                         /\ q.returned.results = job_info.results
                         /\ q.returned.errors = job_info.errors
                    ELSE /\ DOMAIN q.returned = {"job_id", "status", "message"}
                         /\ q.returned.status = job_info.status
                         /\ q.returned.message = "Job not yet completed"
      ]_vars

\* C29 witness: get_job_results was called for a job that is still being
\* processed and has already recorded an item error, while another job has
\* ended.
C29_Witness ==
    /\ lastQuery # NoValue
    /\ lastQuery.method = "get_job_results"
    /\ lastQuery.job_id \in DOMAIN active_jobs
    /\ active_jobs[lastQuery.job_id].status = "processing"
    /\ active_jobs[lastQuery.job_id].errors # <<>>
    /\ lastQuery.returned # NoValue
    /\ DOMAIN lastQuery.returned = {"job_id", "status", "message"}
    /\ lastQuery.returned.status = "processing"
    /\ \E j \in DOMAIN active_jobs : active_jobs[j].status \in {"completed", "failed"}

\* C30: in every state of the semantic cache in which no get is in progress,
\* after get_cached_result calls issued concurrently by worker threads and
\* interleaved with stores, cache_hits + cache_misses = total_requests.
C30_AnalyticsConsistent ==
    (\A w \in DOMAIN gets : gets[w].pc = "idle") =>
        analytics.cache_hits + analytics.cache_misses = analytics.total_requests

====
